---- MODULE Spec2Model ----
(***************************************************************************)
(* Model of the venice_kb knowledge-base collector: the snapshot differ,   *)
(* the deduplicator, the write / snapshot / changelog phases of the build  *)
(* pipeline, the merger and the OpenAPI parser, the GitHub fetcher with    *)
(* its cache, the web scraper with its browser, and the changelog writer   *)
(* and command; and of the docusynthetic document processor.               *)
(*                                                                         *)
(* Text is modelled as a sequence of tokens.  A token is a word, the       *)
(* single-character whitespace tokens "_" (space) and "nl" (newline), or a *)
(* punctuation token such as "/" and "#".  Paths are token sequences too,  *)
(* so that `pattern in path` is a contiguous-subsequence test.             *)
(* SHA-256 is modelled as an injective function: the hash of a text is the *)
(* text itself.                                                            *)
(***************************************************************************)
EXTENDS Integers, Sequences, FiniteSets, TLC

VARIABLES
    old_snapshot,     \* differ / pipeline: the snapshot passed as `old`
    new_snapshot,     \* differ / pipeline: the snapshot passed as `new`
    diff_report,      \* the DiffReport returned by diff_snapshots
    pages,            \* Deduplicator.pages (ordered dict: sequence of entries)
    threshold,        \* deduplicate_similar(threshold), as <<num, den>>
    exact_pages,      \* result of deduplicate_exact
    unique_pages,     \* result of deduplicate_similar
    similar_log,      \* the "Similar pages detected" log lines of the pass
    clock,            \* wall clock, in ticks
    kb_dir,           \* knowledge_base/: md path -> file written by KBWriter
    snapshot_dir,     \* snapshots/: file name -> stored snapshot
    changelog_json,   \* knowledge_base/CHANGELOG.json: list of reports
    index_json,       \* knowledge_base/_index.json and _manifest.json
    pc,               \* position of the running command
    history,          \* observations used to state properties over a run
    documents,        \* DocumentProcessor: the documents of all fetchers
    previous_state,   \* DocumentProcessor: load_previous_state() (state.json)
    merged_docs,      \* result of merge_documents
    changelog_entries, \* result of detect_changes
    mdx_pages,        \* Merger.pages: path -> MDX from the repository
    canonical_pages,  \* Merger.canonical_pages: list of page_info
    openapi_endpoints, \* Merger.openapi_endpoints
    scraped_content,  \* Merger.scraped_content: url -> scraped HTML
    merged_pages,     \* result of Merger.merge_all
    openapi_spec,     \* OpenAPIParser.spec: the parsed document
    expanded_schema,  \* result of OpenAPIParser._expand_schema
    appended,         \* every report handed to append_to_existing, in order
    fetch,            \* GitHubFetcher: one cache entry and the running fetch_file
    gather,           \* GitHubFetcher.fetch_all_pages: the gathered fetch_file tasks
    scraper           \* WebScraper: its fields, its cache and the scrape_page tasks

vars == <<old_snapshot, new_snapshot, diff_report, pages, threshold,
          exact_pages, unique_pages, similar_log, clock, kb_dir,
          snapshot_dir, changelog_json, index_json, pc, history,
          documents, previous_state, merged_docs, changelog_entries,
          mdx_pages, canonical_pages, openapi_endpoints, scraped_content,
          merged_pages, openapi_spec, expanded_schema,
          appended, fetch, gather, scraper>>

\* Optional values: <<>> is None, <<x>> is x
None == <<>>

Some(x) == <<x>>

(***************************************************************************)
(* Generic helpers                                                         *)
(***************************************************************************)

\* Python `pat in s` on token sequences
Contains(s, pat) ==
    \E i \in 1..(Len(s) - Len(pat) + 1) : SubSeq(s, i, i + Len(pat) - 1) = pat

StartsWith(s, pre) ==
    Len(s) >= Len(pre) /\ SubSeq(s, 1, Len(pre)) = pre

RECURSIVE SetToSeq(_)
\* iteration over a Python set: some order, each element once
SetToSeq(S) ==
    IF S = {} THEN <<>>
    ELSE LET x == CHOOSE y \in S : TRUE
         IN  <<x>> \o SetToSeq(S \ {x})

Range(s) == {s[i] : i \in 1..Len(s)}

Abs(n) == IF n < 0 THEN -n ELSE n

Max(a, b) == IF a >= b THEN a ELSE b

\* str.lower() on one token
LowerTok(t) ==
    CASE t = "A" -> "a"
      [] t = "B" -> "b"
      [] t = "C" -> "c"
      [] t = "D" -> "d"
      [] t = "E" -> "e"
      [] t = "API" -> "api"
      [] t = "Overview" -> "overview"
      [] t = "Guide" -> "guide"
      [] t = "Pass" -> "pass"
      [] t = "Required" -> "required"
      [] OTHER -> t

Lower(s) == [i \in 1..Len(s) |-> LowerTok(s[i])]

IsSpace(t) == t \in {"_", "nl"}

\* len(text): every token counts its characters, "nl" is one character
TokLen(t) == IF t = "nl" THEN 1 ELSE Len(t)

RECURSIVE TextLen(_)
TextLen(s) == IF s = <<>> THEN 0 ELSE TokLen(Head(s)) + TextLen(Tail(s))

(***************************************************************************)
(* diffing/differ.py                                                       *)
(***************************************************************************)

BREAKING == "breaking"
IMPORTANT == "important"
INFORMATIONAL == "info"
COSMETIC == "cosmetic"

ADDED == "added"
MODIFIED == "modified"
REMOVED == "removed"

\* the dict literal, in insertion order
SEVERITY_RULES == <<
    [pattern |-> <<"api-reference", "/", "endpoint", "/">>, severity |-> IMPORTANT],
    [pattern |-> <<"api-reference", "/", "error-codes">>, severity |-> IMPORTANT],
    [pattern |-> <<"api-reference", "/", "rate-limiting">>, severity |-> IMPORTANT],
    [pattern |-> <<"overview", "/", "deprecations">>, severity |-> BREAKING],
    [pattern |-> <<"overview", "/", "beta-models">>, severity |-> INFORMATIONAL],
    [pattern |-> <<"overview", "/", "pricing">>, severity |-> IMPORTANT],
    [pattern |-> <<"models", "/">>, severity |-> INFORMATIONAL],
    [pattern |-> <<"guides", "/">>, severity |-> INFORMATIONAL],
    [pattern |-> <<"overview", "/", "privacy">>, severity |-> INFORMATIONAL] >>

BREAKING_SIGNALS == <<
    <<"removed">>,
    <<"deprecated">>,
    <<"no", "_", "longer">>,
    <<"breaking">>,
    <<"required", "_", "parameter">>,
    <<"schema", "_", "change">>,
    <<"endpoint", "_", "removed">>,
    <<"status", "_", "code", "_", "changed">>,
    <<"authentication", "_", "changed">> >>

classify_severity(path, change_type, diff_text) ==
    LET diff_lower == Lower(diff_text)
        hits == {i \in 1..Len(SEVERITY_RULES) : Contains(path, SEVERITY_RULES[i].pattern)}
    IN  IF \E k \in 1..Len(BREAKING_SIGNALS) : Contains(diff_lower, BREAKING_SIGNALS[k])
        THEN BREAKING
        ELSE IF hits # {}
        THEN SEVERITY_RULES[CHOOSE i \in hits : \A j \in hits : i <= j].severity
        ELSE IF change_type = REMOVED THEN IMPORTANT
        ELSE IF change_type = ADDED THEN INFORMATIONAL
        ELSE COSMETIC

AddedEntry(new, path) ==
    LET metadata == new.page_manifest[path]
    IN  [change_type |-> ADDED,
         severity |-> classify_severity(path, ADDED, <<>>),
         path |-> path,
         title |-> <<"New", metadata.title>>,
         old_hash |-> None, new_hash |-> Some(metadata.hash),
         old_token_count |-> None, new_token_count |-> Some(metadata.token_count),
         diff_preview |-> None]

RemovedEntry(old, path) ==
    LET metadata == old.page_manifest[path]
    IN  [change_type |-> REMOVED,
         severity |-> classify_severity(path, REMOVED, <<>>),
         path |-> path,
         title |-> <<"Removed", metadata.title>>,
         old_hash |-> Some(metadata.hash), new_hash |-> None,
         old_token_count |-> Some(metadata.token_count), new_token_count |-> None,
         diff_preview |-> None]

SmallTokenChangeInclusive(old_meta, new_meta) ==
    20 * Abs(new_meta.token_count - old_meta.token_count) <= Max(old_meta.token_count, 1)

\* 20 * |new - old| < max(old, 1)  is  |new - old| / max(old, 1) < 0.05
SmallTokenChange(old_meta, new_meta) ==
    20 * Abs(new_meta.token_count - old_meta.token_count) < Max(old_meta.token_count, 1)

ModifiedSeverity(path, old_meta, new_meta) ==
    LET diff_preview == <<>>
        severity == classify_severity(path, MODIFIED, diff_preview)
    IN  IF SmallTokenChange(old_meta, new_meta) /\ severity = INFORMATIONAL
        THEN COSMETIC
        ELSE severity

ModifiedEntry(old, new, path) ==
    LET old_meta == old.page_manifest[path]
        new_meta == new.page_manifest[path]
    IN  [change_type |-> MODIFIED,
         severity |-> ModifiedSeverity(path, old_meta, new_meta),
         path |-> path,
         title |-> <<"Updated", new_meta.title>>,
         old_hash |-> Some(old_meta.hash), new_hash |-> Some(new_meta.hash),
         old_token_count |-> Some(old_meta.token_count),
         new_token_count |-> Some(new_meta.token_count),
         diff_preview |-> None]

SameHashOrMeta(old_meta, new_meta) == old_meta = new_meta

\* the test that sends a common path to `unchanged`
SameHash(old_meta, new_meta) == old_meta.hash = new_meta.hash

diff_stats_no_unchanged(added_paths, removed_paths, common_paths, modified_paths) ==
    [added |-> Cardinality(added_paths),
     removed |-> Cardinality(removed_paths),
     modified |-> Cardinality(modified_paths),
     unchanged |-> 0]

\* the stats dict when the three loops are done
diff_stats(added_paths, removed_paths, common_paths, modified_paths) ==
    [added |-> Cardinality(added_paths),
     removed |-> Cardinality(removed_paths),
     modified |-> Cardinality(modified_paths),
     unchanged |-> Cardinality(common_paths \ modified_paths)]

get_page_paths(snapshot) == DOMAIN snapshot.page_manifest

diff_snapshots(old, new) ==
    LET old_paths == get_page_paths(old)
        new_paths == get_page_paths(new)
        added_paths == new_paths \ old_paths
        removed_paths == old_paths \ new_paths
        common_paths == old_paths \cap new_paths
        modified_paths == {p \in common_paths :
                             ~SameHash(old.page_manifest[p], new.page_manifest[p])}
        added_seq == SetToSeq(added_paths)
        removed_seq == SetToSeq(removed_paths)
        modified_seq == SetToSeq(modified_paths)
        changes ==
            [i \in 1..Len(added_seq) |-> AddedEntry(new, added_seq[i])]
            \o [i \in 1..Len(removed_seq) |-> RemovedEntry(old, removed_seq[i])]
            \o [i \in 1..Len(modified_seq) |-> ModifiedEntry(old, new, modified_seq[i])]
        OfSeverity(sev) == SelectSeq(changes, LAMBDA c : c.severity = sev)
    IN  [previous_snapshot |-> old.timestamp,
         current_snapshot |-> new.timestamp,
         stats |-> diff_stats(added_paths, removed_paths, common_paths, modified_paths),
         breaking_changes |-> OfSeverity(BREAKING),
         important_changes |-> OfSeverity(IMPORTANT),
         informational_changes |-> OfSeverity(INFORMATIONAL),
         cosmetic_changes |-> OfSeverity(COSMETIC)]

get_all_changes(report) ==
    report.breaking_changes \o report.important_changes
        \o report.informational_changes \o report.cosmetic_changes

(***************************************************************************)
(* processing/deduplicator.py                                              *)
(***************************************************************************)

RECURSIVE SplitAcc(_, _, _)
SplitAcc(s, cur, acc) ==
    LET flushed == IF cur = <<>> THEN acc ELSE Append(acc, cur)
    IN  IF s = <<>> THEN flushed
        ELSE IF IsSpace(Head(s)) THEN SplitAcc(Tail(s), <<>>, flushed)
        ELSE SplitAcc(Tail(s), Append(cur, Head(s)), acc)

\* str.split(): the maximal runs of non-whitespace, in order
Split(s) == SplitAcc(s, <<>>, <<>>)

RECURSIVE Join(_)
\* " ".join(words)
Join(words) ==
    IF words = <<>> THEN <<>>
    ELSE IF Len(words) = 1 THEN words[1]
    ELSE words[1] \o <<"_">> \o Join(Tail(words))

_normalize_text(text) == Lower(Join(Split(text)))

\* sha256(normalized.encode()).hexdigest(), injective
_content_hash(content) == _normalize_text(content)

RECURSIVE ExactLoop(_, _, _, _)
ExactLoop(ps, i, seen_hashes, unique) ==
    IF i > Len(ps) THEN unique
    ELSE LET content_hash == _content_hash(ps[i].content)
         IN  IF content_hash \in seen_hashes
             THEN ExactLoop(ps, i + 1, seen_hashes, unique)
             ELSE ExactLoop(ps, i + 1, seen_hashes \cup {content_hash},
                            Append(unique, ps[i]))

Reverse(s) == [i \in 1..Len(s) |-> s[Len(s) + 1 - i]]

deduplicate_exact_keep_last(ps) == Reverse(ExactLoop(Reverse(ps), 1, {}, <<>>))

deduplicate_exact(ps) == ExactLoop(ps, 1, {}, <<>>)

WordSet(content) == Range(Split(_normalize_text(content)))

\* similarity >= threshold, with threshold = th[1] / th[2]
Similar(words1, words2, th) ==
    Cardinality(words1 \cap words2) * th[2] >= th[1] * Cardinality(words1 \cup words2)

InnerStartSkipsOne(i) == i + 2

\* paths_to_check[i + 1:], the first index of the inner loop
InnerStart(i) == i + 1

KeepFirstAlways(content1, content2) == TRUE

\* TRUE when path1 (the outer page) is kept and path2 removed
KeepFirst(content1, content2) == TextLen(content1) >= TextLen(content2)

RECURSIVE SimilarLoop(_, _, _, _, _, _)
\* the two nested loops over paths_to_check; the result is pages_to_remove
\* together with the (kept, removed) pairs in the order they are logged
SimilarLoop(u, th, i, j, pages_to_remove, log) ==
    IF i > Len(u) THEN [pages_to_remove |-> pages_to_remove, log |-> log]
    ELSE IF u[i].path \in pages_to_remove \/ j > Len(u)
    THEN SimilarLoop(u, th, i + 1, InnerStart(i + 1), pages_to_remove, log)
    ELSE IF u[j].path \in pages_to_remove
    THEN SimilarLoop(u, th, i, j + 1, pages_to_remove, log)
    ELSE LET words1 == WordSet(u[i].content)
             words2 == WordSet(u[j].content)
         IN  IF words1 = {} \/ words2 = {}
             THEN SimilarLoop(u, th, i, j + 1, pages_to_remove, log)
             ELSE IF Similar(words1, words2, th)
             THEN IF KeepFirst(u[i].content, u[j].content)
                  THEN SimilarLoop(u, th, i, j + 1,
                                   pages_to_remove \cup {u[j].path},
                                   Append(log, [kept |-> u[i], removed |-> u[j]]))
                  ELSE SimilarLoop(u, th, i + 1, InnerStart(i + 1),
                                   pages_to_remove \cup {u[i].path},
                                   Append(log, [kept |-> u[j], removed |-> u[i]]))
             ELSE SimilarLoop(u, th, i, j + 1, pages_to_remove, log)

similarity_pass(ps, th) ==
    SimilarLoop(deduplicate_exact(ps), th, 1, InnerStart(1), {}, <<>>)

deduplicate_similar(ps, th) ==
    LET pass == similarity_pass(ps, th)
    IN  SelectSeq(deduplicate_exact(ps), LAMBDA e : e.path \notin pass.pages_to_remove)

(***************************************************************************)
(* processing/chunker.py, output/kb_writer.py, diffing/snapshot.py         *)
(***************************************************************************)

TicksPerSec == 3

\* Chunker.count_tokens without tiktoken: len(text) // 4
count_tokens(n_chars) == n_chars \div 4

RECURSIVE LinesAcc(_, _, _)
LinesAcc(s, cur, acc) ==
    IF s = <<>> THEN Append(acc, cur)
    ELSE IF Head(s) = "nl" THEN LinesAcc(Tail(s), <<>>, Append(acc, cur))
    ELSE LinesAcc(Tail(s), Append(cur, Head(s)), acc)

\* content.split("\n")
Lines(s) == LinesAcc(s, <<>>, <<>>)

RECURSIVE Strip(_)
\* str.strip() of a line whose leading "# " is already cut
Strip(s) ==
    IF s = <<>> THEN s
    ELSE IF IsSpace(Head(s)) THEN Strip(Tail(s))
    ELSE IF IsSpace(s[Len(s)]) THEN Strip(SubSeq(s, 1, Len(s) - 1))
    ELSE s

_extract_title(content) ==
    LET lines == Lines(content)
        heads == {i \in 1..Len(lines) : StartsWith(lines[i], <<"#", "_">>)}
    IN  IF heads = {} THEN <<"Untitled">>
        ELSE LET i == CHOOSE k \in heads : \A j \in heads : k <= j
             IN  Strip(SubSeq(lines[i], 3, Len(lines[i])))

\* path.replace(".mdx", ".md")
MdPath(path) == [i \in 1..Len(path) |-> IF path[i] = ".mdx" THEN ".md" ELSE path[i]]

\* the file KBWriter.write_page writes: the frontmatter fields and the body
write_page(content, now) ==
    [title |-> _extract_title(content),
     last_updated |-> now,
     content_hash |-> content,
     token_count |-> count_tokens(TextLen(content)),
     tags |-> <<>>,
     body |-> content]

Put(f, k, v) == [x \in DOMAIN f \cup {k} |-> IF x = k THEN v ELSE f[x]]

RECURSIVE write_all(_, _, _)
\* one write_page per page; files already in the directory stay
write_all(dir, ps, now) ==
    IF ps = <<>> THEN dir
    ELSE write_all(Put(dir, MdPath(Head(ps).path), write_page(Head(ps).content, now)),
                   Tail(ps), now)

CHANGELOG_MD == <<"CHANGELOG", ".md">>

\* characters of "---\n<yaml>---\n\n": the keys and the values of the header
FrontmatterLen(file) ==
    TextLen(<<"---", "nl", "title:", "_">>) + TextLen(file.title)
    + TextLen(<<"nl", "source:", "_", "venice-kb-collector", "nl", "last_updated:", "_">>)
    + TextLen(<<"YYYY-MM-DDTHH:MM:SS.ffffff", "nl", "content_hash:", "_">>)
    + TextLen(<<"0123456789abcdef0123456789abcdef0123456789abcdef0123456789abcdef">>)
    + TextLen(<<"nl", "token_count:", "_", "nl", "tags:", "_", "[]", "nl", "---", "nl", "nl">>)

\* relative_path.startswith("_") or relative_path == "CHANGELOG.md"
SkipSpecial(path) ==
    Head(path) \in {"_index", "_manifest", "_drafts"} \/ path = CHANGELOG_MD

\* kb_path.rglob("*.md"): the page files and, once written, CHANGELOG.md
MdFiles(dir, changelog) ==
    DOMAIN dir \cup (IF changelog.exists THEN {CHANGELOG_MD} ELSE {})

\* the hash is taken over the whole file, frontmatter included
PageInfo(file) ==
    [hash |-> [last_updated |-> file.last_updated, body |-> file.body],
     token_count |-> count_tokens(FrontmatterLen(file) + TextLen(file.body)),
     title |-> _extract_title(file.body),
     tags |-> <<>>]

create_snapshot(dir, changelog, now) ==
    [timestamp |-> now,
     page_manifest |->
        [p \in {q \in MdFiles(dir, changelog) : ~SkipSpecial(q)} |-> PageInfo(dir[p])]]

\* snapshot.timestamp.strftime("%Y%m%d_%H%M%S"): the second of the timestamp
SnapshotName(snapshot) == snapshot.timestamp \div TicksPerSec

\* json.dumps(model_dump(mode="json")): the timestamp as ISO text
dump_snapshot(snapshot) ==
    [timestamp |-> <<snapshot.timestamp \div TicksPerSec, snapshot.timestamp % TicksPerSec>>,
     page_manifest |-> snapshot.page_manifest]

load_snapshot(data) ==
    [timestamp |-> data.timestamp[1] * TicksPerSec + data.timestamp[2],
     page_manifest |-> data.page_manifest]

\* write_text replaces the file of that name when there is one
save_snapshot(dir, snapshot) == Put(dir, SnapshotName(snapshot), dump_snapshot(snapshot))

\* sorted(glob, reverse=True)[0]
load_latest_snapshot(dir) ==
    IF DOMAIN dir = {} THEN None
    ELSE Some(load_snapshot(dir[CHOOSE n \in DOMAIN dir : \A m \in DOMAIN dir : m <= n]))

\* sorted(self.snapshot_dir.glob("snapshot_*.json")): ascending by file name
RECURSIVE SortedNames(_)
SortedNames(S) ==
    IF S = {} THEN <<>>
    ELSE LET least == CHOOSE n \in S : \A m \in S : n <= m
         IN  <<least>> \o SortedNames(S \ {least})

list_snapshots(dir) == SortedNames(DOMAIN dir)

\* report.model_dump(mode="json"): the snapshot ids as JSON text
dump_report(report) ==
    [report EXCEPT
        !.previous_snapshot = <<@ \div TicksPerSec, @ % TicksPerSec>>,
        !.current_snapshot = <<@ \div TicksPerSec, @ % TicksPerSec>>]

\* DiffReport(**report)
load_report(data) ==
    [data EXCEPT
        !.previous_snapshot = @[1] * TicksPerSec + @[2],
        !.current_snapshot = @[1] * TicksPerSec + @[2]]

\* ChangelogWriter.write_changelog: CHANGELOG.json is the list of the dumped
\* reports, in the order given
write_changelog(reports) ==
    [exists |-> TRUE,
     reports |-> [i \in 1..Len(reports) |-> dump_report(reports[i])]]

\* existing_reports: the reports of CHANGELOG.json, [] without the file
load_existing(changelog) ==
    IF changelog.exists
    THEN [i \in 1..Len(changelog.reports) |-> load_report(changelog.reports[i])]
    ELSE <<>>

append_to_existing_oldest_first(changelog, new_report) ==
    write_changelog(load_existing(changelog) \o <<new_report>>)

\* ChangelogWriter.append_to_existing: [new_report] + existing_reports
append_to_existing(changelog, new_report) ==
    write_changelog(<<new_report>> \o load_existing(changelog))

(***************************************************************************)
(* docusynthetic/processors/__init__.py                                    *)
(***************************************************************************)

GITHUB_MDX == "github_mdx"
OPENAPI_SPEC == "openapi_spec"
LIVE_SITE == "live_site"

INFO == "info"

\* the sort key of merge_documents
SourcePriority(source) ==
    IF source = GITHUB_MDX THEN 0 ELSE IF source = OPENAPI_SPEC THEN 1 ELSE 2

RECURSIVE HashOrder(_, _)
\* the keys of hash_to_docs, in insertion order
HashOrder(docs, seen) ==
    IF docs = <<>> THEN <<>>
    ELSE IF Head(docs).content_hash \in seen THEN HashOrder(Tail(docs), seen)
    ELSE <<Head(docs).content_hash>>
            \o HashOrder(Tail(docs), seen \cup {Head(docs).content_hash})

FirstOfGroup(doc_group) == doc_group[1]

\* sorted(doc_group, key=...)[0]: the sort is stable
SortedFirst(doc_group) ==
    doc_group[CHOOSE i \in 1..Len(doc_group) :
        \A j \in 1..Len(doc_group) :
            \/ SourcePriority(doc_group[i].source) < SourcePriority(doc_group[j].source)
            \/ /\ SourcePriority(doc_group[i].source) = SourcePriority(doc_group[j].source)
               /\ i <= j]

merge_documents(docs) ==
    LET hashes == HashOrder(docs, {})
    IN  [k \in 1..Len(hashes) |->
            SortedFirst(SelectSeq(docs, LAMBDA d : d.content_hash = hashes[k]))]

\* {doc.metadata.title: doc.content_hash for doc in docs}: the last one wins
TitleHashes(docs) ==
    [t \in {docs[i].title : i \in 1..Len(docs)} |->
        docs[CHOOSE i \in 1..Len(docs) :
                /\ docs[i].title = t
                /\ \A j \in 1..Len(docs) : docs[j].title = t => j <= i].content_hash]

_determine_change_severity(doc_title) ==
    IF \E kw \in {"api", "endpoint", "breaking", "deprecated"} :
          Contains(Lower(doc_title), <<kw>>)
    THEN IMPORTANT ELSE INFO

InitialBuildEntry ==
    [severity |-> INFO, title |-> <<"Initial build">>, affected_paths |-> <<<<"*">>>>]

NoPreviousStateOrEmpty(previous) ==
    previous = None \/ DOMAIN previous[1].content_hashes = {}

\* `not previous_state`: a BuildState object is always true
NoPreviousState(previous) == previous = None

detect_changes(previous, current_documents) ==
    IF NoPreviousState(previous) THEN <<InitialBuildEntry>>
    ELSE
      LET current_hashes == TitleHashes(current_documents)
          previous_hashes == previous[1].content_hashes
          new_docs == SetToSeq(DOMAIN current_hashes \ DOMAIN previous_hashes)
          removed_docs == SetToSeq(DOMAIN previous_hashes \ DOMAIN current_hashes)
          modified == SetToSeq({t \in DOMAIN current_hashes \cap DOMAIN previous_hashes :
                                   current_hashes[t] # previous_hashes[t]})
      IN  [i \in 1..Len(new_docs) |->
              [severity |-> INFO, title |-> <<"New document:", "_">> \o new_docs[i],
               affected_paths |-> <<new_docs[i]>>]]
          \o [i \in 1..Len(removed_docs) |->
              [severity |-> BREAKING,
               title |-> <<"Removed document:", "_">> \o removed_docs[i],
               affected_paths |-> <<removed_docs[i]>>]]
          \o [i \in 1..Len(modified) |->
              [severity |-> _determine_change_severity(modified[i]),
               title |-> <<"Updated:", "_">> \o modified[i],
               affected_paths |-> <<modified[i]>>]]

\* the BuildState that save_state writes to state.json
save_state(docs) == Some([content_hashes |-> TitleHashes(docs)])

(***************************************************************************)
(* processing/mdx_converter.py, html_converter.py, merger.py               *)
(***************************************************************************)

\* <div id="models-placeholder">...</div> and the sentinel it becomes
PlaceholderDiv(id) == "<div id=\"" \o id \o "\"></div>"

Sentinel(id) == "<!-- PLACEHOLDER: " \o id \o " -->"

PlaceholderIds == {"models-placeholder", "pricing-placeholder"}

\* a match of r"<!-- PLACEHOLDER: ([^>]+) -->"
IsSentinel(tok) == \E id \in PlaceholderIds : tok = Sentinel(id)

\* MDXConverter._convert_placeholders on one token
ConvertPlaceholderTok(tok) ==
    IF \E id \in PlaceholderIds : tok = PlaceholderDiv(id)
    THEN Sentinel(CHOOSE id \in PlaceholderIds : tok = PlaceholderDiv(id))
    ELSE tok

\* MDXConverter._strip_simple_tags: the wrapper tags go, their text stays
IsSimpleTag(tok) == tok \in {"<Frame>", "</Frame>", "<Tooltip>", "</Tooltip>"}

\* MDXConverter(mdx_content).convert() for MDX without frontmatter
MDXConvert(mdx_content) ==
    SelectSeq([i \in 1..Len(mdx_content) |-> ConvertPlaceholderTok(mdx_content[i])],
              LAMBDA tok : ~IsSimpleTag(tok))

IsHtmlTag(tok) ==
    tok \in {"<div>", "</div>", "<div class=\"fallback\">", "<table>", "</table>",
             "<!-- rendered -->"}

\* HTMLConverter(html).convert(): the text of the document, tags and
\* comments dropped, stripped
HTMLConvert(html) == Strip(SelectSeq(html, LAMBDA tok : ~IsHtmlTag(tok)))

\* f"# {title}\n\n*Documentation for this page is not yet available.*\n"
StubPage(title) ==
    <<"#", "_">> \o title
        \o <<"nl", "nl", "*Documentation for this page is not yet available.*", "nl">>

\* f"# Error\n\nFailed to merge page: {e}\n"
ErrorPage(e) ==
    <<"#", "_", "Error", "nl", "nl", "Failed to merge page:", "_", e, "nl">>

RECURSIVE JoinBreadcrumb(_)
\* " > ".join(breadcrumb)
JoinBreadcrumb(breadcrumb) ==
    IF breadcrumb = <<>> THEN <<>>
    ELSE IF Len(breadcrumb) = 1 THEN <<Head(breadcrumb).text>>
    ELSE <<Head(breadcrumb).text, "_", ">", "_">> \o JoinBreadcrumb(Tail(breadcrumb))

RECURSIVE ReplaceSentinels(_, _)
\* re.sub(placeholder_pattern, replace_placeholder, markdown)
ReplaceSentinels(markdown, replacement) ==
    IF markdown = <<>> THEN <<>>
    ELSE (IF IsSentinel(Head(markdown)) THEN replacement ELSE <<Head(markdown)>>)
            \o ReplaceSentinels(Tail(markdown), replacement)

_inject_scraped_content(markdown, page_info, scraped) ==
    IF page_info.url \notin DOMAIN scraped THEN markdown
    ELSE ReplaceSentinels(markdown, HTMLConvert(scraped[page_info.url]))

\* path.replace(".mdx", "").split("/")[-1]
PagePathPart(path) == <<path[Len(path) - 1]>>

\* endpoint["path"].lower().replace("/", "-").replace("_", "-")
EndpointKey(endpoint) ==
    [i \in 1..Len(endpoint.path) |->
        IF endpoint.path[i] \in {"/", "_"} THEN "-" ELSE LowerTok(endpoint.path[i])]

EndpointMatches(path, endpoint) ==
    \/ Contains(EndpointKey(endpoint), PagePathPart(path))
    \/ Contains(PagePathPart(path), EndpointKey(endpoint))

\* the pages _enrich_with_openapi looks at
IsEndpointPage(path) ==
    ~(~Contains(path, <<"api-reference">>) /\ ~Contains(path, <<"endpoints">>))

\* the endpoints carry no parameters; the response codes are listed
_format_openapi_endpoint(endpoint) ==
    IF endpoint.responses = <<>> THEN <<>>
    ELSE <<"### Response Codes", "nl", "nl">>
            \o <<"- **", endpoint.responses[1].status_code, "**:", "_",
                 endpoint.responses[1].description, "nl">>

_enrich_with_openapi(markdown, page_info, endpoints) ==
    LET hits == {k \in 1..Len(endpoints) : EndpointMatches(page_info.path, endpoints[k])}
    IN  IF ~IsEndpointPage(page_info.path) \/ hits = {} THEN markdown
        ELSE markdown \o <<"nl", "nl", "---", "nl", "nl", "## API Specification", "nl", "nl">>
                \o _format_openapi_endpoint(
                      endpoints[CHOOSE k \in hits : \A j \in hits : k <= j])

\* the outcome of merge_page: the markdown, or the exception that left it
merge_page(page_info, mdx, endpoints, scraped) ==
    LET mdx_content == IF page_info.path \in DOMAIN mdx THEN mdx[page_info.path] ELSE <<>>
        markdown == MDXConvert(mdx_content)
        with_breadcrumb ==
            IF page_info.breadcrumb # <<>>
            THEN <<"*">> \o JoinBreadcrumb(page_info.breadcrumb) \o <<"*", "nl", "nl">>
                    \o markdown
            ELSE markdown
    IN  IF mdx_content = <<>>
        THEN [raised |-> FALSE, value |-> StubPage(page_info.title)]
        ELSE IF \E i \in 1..Len(page_info.breadcrumb) : ~page_info.breadcrumb[i].is_str
        THEN [raised |-> TRUE, value |-> <<"TypeError">>]
        ELSE [raised |-> FALSE,
              value |-> _enrich_with_openapi(
                           _inject_scraped_content(with_breadcrumb, page_info, scraped),
                           page_info, endpoints)]

RECURSIVE merge_all(_, _, _, _, _)
\* one entry per path: a later page_info of the same path replaces the entry
merge_all(canonical, mdx, endpoints, scraped, acc) ==
    IF canonical = <<>> THEN acc
    ELSE LET page_info == Head(canonical)
             r == merge_page(page_info, mdx, endpoints, scraped)
             entry == IF r.raised THEN ErrorPage(r.value[1]) ELSE r.value
         IN  merge_all(Tail(canonical), mdx, endpoints, scraped,
                       Put(acc, page_info.path, entry))

(***************************************************************************)
(* sources/openapi_parser.py                                               *)
(***************************************************************************)

\* the document is a table of objects; object k is
\*   [kind |-> "str"]                      a scalar
\*   [kind |-> "dict", ref, kids]          ref = 0: no "$ref" key, otherwise
\*                                         the object its "$ref" points to;
\*                                         kids: the values of the other keys
\*   [kind |-> "list", kids]               the items
\* a "$ref" that _resolve_ref answers with None points to no object (Dangling)
Dangling(doc) == Len(doc) + 1

MaxExpandDepth == 10

AtDepthBoundOffByOne(depth) == depth > MaxExpandDepth + 1

\* if depth > 10
AtDepthBound(depth) == depth > MaxExpandDepth

\* _resolve_ref(ref): the object, or None
_resolve_ref(doc, ref) == IF ref \in 1..Len(doc) THEN Some(ref) ELSE None

\* `if resolved:` for a resolved object
Truthy(node) ==
    \/ node.kind = "str"
    \/ node.kind = "dict" /\ (node.ref # 0 \/ node.kids # <<>>)
    \/ node.kind = "list" /\ node.kids # <<>>

\* `return schema`: the object as it is in the document
AsIs(k) == [tag |-> "as_is", node |-> k, kids |-> <<>>]

RECURSIVE _expand_schema(_, _, _)
\* the value returned and the calls made, each with its depth and whether it
\* returned the schema as it is; node 0 stands for the string of a "$ref"
_expand_schema(doc, k, depth) ==
    LET node == doc[k]
        kids == [i \in 1..Len(node.kids) |-> _expand_schema(doc, node.kids[i], depth + 1)]
        kid_calls == UNION {kids[i].calls : i \in 1..Len(kids)}
        resolved == IF node.kind = "dict" /\ node.ref # 0
                    THEN _resolve_ref(doc, node.ref) ELSE None
    IN  IF AtDepthBound(depth)
        THEN [value |-> AsIs(k),
              calls |-> {[node |-> k, depth |-> depth, as_is |-> TRUE]}]
        ELSE IF node.kind = "dict" /\ resolved # None /\ Truthy(doc[resolved[1]])
        THEN LET r == _expand_schema(doc, resolved[1], depth + 1)
             IN  [value |-> r.value,
                  calls |-> {[node |-> k, depth |-> depth, as_is |-> FALSE]} \cup r.calls]
        ELSE IF node.kind \in {"dict", "list"}
        THEN [value |-> [tag |-> node.kind, node |-> k,
                         kids |-> [i \in 1..Len(kids) |-> kids[i].value]],
              calls |-> {[node |-> k, depth |-> depth, as_is |-> FALSE]}
                        \cup kid_calls
                        \cup (IF node.kind = "dict" /\ node.ref # 0
                              THEN {[node |-> 0, depth |-> depth + 1, as_is |-> TRUE]}
                              ELSE {})]
        ELSE [value |-> AsIs(k),
              calls |-> {[node |-> k, depth |-> depth, as_is |-> TRUE]}]

(***************************************************************************)
(* Inputs                                                                  *)
(***************************************************************************)

MaxUnion == 2        \* pages over the two snapshots handed to the differ
MaxPages == 3        \* pages handed to the Deduplicator
MaxBuildPages == 2   \* merged pages of one build
MaxBuilds == 2       \* builds in one run
MaxClock == 5        \* last tick of the wall clock
MaxAdvance == 2      \* ticks between two readings of the clock

DiffPaths == {
    <<"guides", "/", "intro", ".md">>,
    <<"api-reference", "/", "endpoint", "/", "chat", ".md">>,
    <<"overview", "/", "deprecations", ".md">>,
    <<"api-reference", "/", "endpoint", "/", "overview", "/", "deprecations", ".md">> }

DiffMetas == {
    [hash |-> "h1", token_count |-> 100, title |-> "T1", tags |-> <<>>],
    [hash |-> "h1", token_count |-> 0, title |-> "T2", tags |-> <<"t">>],
    [hash |-> "h2", token_count |-> 104, title |-> "T1", tags |-> <<>>],
    [hash |-> "h3", token_count |-> 105, title |-> "T2", tags |-> <<"t">>],
    [hash |-> "h2", token_count |-> 0, title |-> "T1", tags |-> <<>>] }

Manifests(S) == UNION {[T -> DiffMetas] : T \in SUBSET S}

\* the markdown whose sha256 is the hash of a manifest entry
PageText(hash) ==
    CASE hash = "h1" -> <<"Pass", "_", "the", "_", "model", "_", "parameter">>
      [] hash = "h2" -> <<"Pass", "_", "the", "_", "optional", "_", "parameter">>
      [] hash = "h3" -> <<"Pass", "_", "the", "_", "Required", "_", "parameter">>

\* the text that changed between two versions: the lines of a unified diff
ChangedText(old_text, new_text) ==
    IF old_text = new_text THEN <<>>
    ELSE <<"-">> \o old_text \o <<"nl", "+">> \o new_text

DedupPaths == {
    <<"a", ".mdx">>,
    <<"b", ".mdx">>,
    <<"guides", "/", "a", ".mdx">>,
    <<"c", ".mdx">> }

\* lexicographic order of the path strings ("." < "/" < letters)
LexOrder == <<
    <<"a", ".mdx">>,
    <<"b", ".mdx">>,
    <<"c", ".mdx">>,
    <<"guides", "/", "a", ".mdx">> >>

LexLess(p, q) ==
    \E i, j \in 1..Len(LexOrder) : LexOrder[i] = p /\ LexOrder[j] = q /\ i < j

Contents == {
    <<"a", "_", "b">>,
    <<"A", "_", "_", "b">>,
    <<"b", "_", "a">>,
    <<"a", "_", "b", "_", "c">>,
    <<"a", "_", "b", "_", "c", "_", "d">>,
    <<"_">> }

Thresholds == {<<4, 5>>, <<2, 3>>}

\* threshold: float = 0.8
DefaultThreshold == <<4, 5>>

BuildPaths == {<<"a", ".mdx">>, <<"b", ".mdx">>}

BuildContents == {
    <<"#", "_", "a", "nl", "a", "_", "b">>,
    <<"b", "_", "a">> }

\* ordered dicts: sequences of entries with pairwise different paths
PageSeqs(paths, contents, n) ==
    {s \in UNION {[1..k -> [path : paths, content : contents]] : k \in 0..n} :
        \A i, j \in 1..Len(s) : i # j => s[i].path # s[j].path}

MaxDocs == 3         \* documents handed to the DocumentProcessor

DocTitles == {<<"API", "_", "Overview">>, <<"Guide">>}

DocHashes == {"hash1", "hash2"}

Documents ==
    [title : DocTitles, source : {GITHUB_MDX, OPENAPI_SPEC, LIVE_SITE},
     content_hash : DocHashes]

\* state.json as an earlier build left it, or no state.json
PreviousStates ==
    {None} \cup {Some([content_hashes |-> f]) :
                    f \in UNION {[T -> DocHashes] : T \in SUBSET DocTitles}}

MaxCanonical == 2    \* entries of the canonical page list

MergerPaths == {
    <<"models", "/", "overview", ".mdx">>,
    <<"api-reference", "/", "endpoint", "/", "chat", ".mdx">> }

MdxContents == {
    <<"Models">>,
    <<"Models", "nl", PlaceholderDiv("models-placeholder")>>,
    <<"<Frame>", PlaceholderDiv("models-placeholder"), "</Frame>", "nl",
      PlaceholderDiv("pricing-placeholder")>> }

Breadcrumbs == {
    <<>>,
    <<[text |-> "Models", is_str |-> TRUE]>>,
    <<[text |-> "API", is_str |-> TRUE], [text |-> "42", is_str |-> FALSE]>> }

\* f"https://docs.venice.ai/{page['path'].replace('.mdx', '')}"
PageUrl(path) == <<"https://docs.venice.ai/">> \o SubSeq(path, 1, Len(path) - 1)

PageInfos ==
    {[path |-> q, title |-> <<q[Len(q) - 1]>>, url |-> PageUrl(q), breadcrumb |-> b] :
        q \in MergerPaths, b \in Breadcrumbs}

EndpointLists == {
    <<>>,
    <<[path |-> <<"/", "chat", "/", "completions">>,
       responses |-> <<[status_code |-> "200", description |-> "OK"]>>]>> }

\* the text a failed scrape leaves for the URL (the dash is U+2014)
FallbackText(url) == <<"[Dynamic content - see", "_">> \o url \o <<"]">>

\* what WebScraper.scrape_all returns for a URL: the rendered page or the
\* fallback div
ScrapedHtml(url) == {
    <<"<div>", "<!-- rendered -->", "<table>", "gpt", "</table>", "</div>">>,
    <<"<div class=\"fallback\">">> \o FallbackText(url) \o <<"</div>">> }

MergerUrls == {PageUrl(q) : q \in MergerPaths}

ScrapedContents ==
    UNION {{f \in [U -> UNION {ScrapedHtml(u) : u \in U}] :
                \A u \in U : f[u] \in ScrapedHtml(u)} : U \in SUBSET MergerUrls}

MaxNodes == 2        \* objects of the OpenAPI document

\* the objects a document of n objects can hold
SchemaNodes(n) ==
    {[kind |-> "str", ref |-> 0, kids |-> <<>>]}
    \cup {[kind |-> "dict", ref |-> r, kids |-> <<>>] : r \in 0..(n + 1)}
    \cup {[kind |-> "dict", ref |-> 0, kids |-> <<k>>] : k \in 1..n}
    \cup {[kind |-> "list", ref |-> 0, kids |-> <<>>]}
    \cup {[kind |-> "list", ref |-> 0, kids |-> <<k>>] : k \in 1..n}
    \cup {[kind |-> "list", ref |-> 0, kids |-> <<k, k>>] : k \in 1..n}

NoSnapshot == [timestamp |-> 0, page_manifest |-> <<>>]

NoChangelog == [exists |-> FALSE, reports |-> <<>>]

NoHistory ==
    [builds |-> 0,              \* builds started
     store_at_start |-> <<>>,   \* snapshots/ when the running build started
     changelog_at_start |-> NoChangelog,
     saved |-> <<>>,            \* every snapshot handed to save_snapshot, in order
     prev |-> None]             \* input and snapshot of the last completed build

MaxAppends == 4      \* append_to_existing calls on one changelog
MaxSnapshots == 3    \* snapshot files the changelog command finds

\* the snapshots the appended reports are diffs of
ReportSnapshots == {
    [timestamp |-> 1, page_manifest |-> <<>>],
    [timestamp |-> 1 + TicksPerSec,
     page_manifest |-> [p \in {<<"guides", "/", "intro", ".md">>} |->
        [hash |-> "h1", token_count |-> 100, title |-> "T1", tags |-> <<>>]]],
    [timestamp |-> 1 + 2 * TicksPerSec,
     page_manifest |-> [p \in {<<"guides", "/", "intro", ".md">>} |->
        [hash |-> "h2", token_count |-> 104, title |-> "T1", tags |-> <<>>]]] }

AppendReports ==
    UNION {{diff_snapshots(o, n) : n \in {m \in ReportSnapshots : m.timestamp > o.timestamp}} :
              o \in ReportSnapshots}

\* the page manifests of the stored snapshots
StoredPaths == {<<"guides", "/", "intro", ".md">>, <<"guides", "/", "faq", ".md">>}

StoredManifests ==
    UNION {[T -> {[hash |-> "h1", token_count |-> 100, title |-> "T1", tags |-> <<>>]}] :
              T \in SUBSET StoredPaths}

\* snapshots/ after some builds: one file per second in which a build saved
SnapshotStores ==
    UNION {{[n \in N |-> dump_snapshot([timestamp |-> n * TicksPerSec,
                                        page_manifest |-> manifest[n]])] :
               manifest \in [N -> StoredManifests]} :
           N \in SUBSET (1..MaxSnapshots)}

\* nothing fetched, gathered or scraped yet
NoFetch ==
    [pc |-> "idle", calls |-> 0, use_cache |-> FALSE,
     attempt |-> 0,             \* the loop variable of fetch_file
     sent |-> 0,                \* requests of the running call
     responses |-> <<>>,        \* what they ended in, in order
     body |-> <<>>,             \* response.text of the 200 response
     result |-> None,           \* the content returned
     cache_payload |-> None,    \* the file cache_path, when it exists
     cache_meta |-> None,       \* the file cache_path + ".meta"
     write_failed |-> FALSE,    \* a cache write raised
     write_cancelled |-> FALSE] \* a cache write was cancelled

NoGather ==
    [pc |-> "idle",
     pending |-> 0,             \* fetch_file tasks that did not start yet
     in_flight |-> <<0, 0, 0>>, \* tasks awaiting client.get, per attempt
     sleeping |-> <<0, 0, 0>>,  \* tasks in asyncio.sleep, per attempt
     returned |-> 0,            \* tasks that returned
     pages |-> 0]               \* len(pages) of the returned dict

NoScraper ==
    [pc |-> "idle", runs |-> 0, use_cache |-> FALSE, skip_scraping |-> FALSE,
     playwright_available |-> FALSE,
     playwright |-> 0,          \* self.playwright: a driver, 0 for None
     browser |-> 0,             \* self.browser: a browser, 0 for None
     driver |-> 0,              \* the driver scrape_all's own init launches on
     drivers |-> <<>>,          \* every driver started in the run
     browsers |-> <<>>,         \* every browser launched in the run
     task |-> <<>>,             \* the scrape_page tasks of the gather
     results |-> <<>>,          \* what they returned
     cache |-> <<>>]            \* .cache/web: url -> cached HTML

(***************************************************************************)
(* The differ on two snapshots                                             *)
(***************************************************************************)

differVars == <<old_snapshot, new_snapshot, diff_report>>
dedupVars == <<pages, threshold, exact_pages, unique_pages, similar_log>>
storeVars == <<clock, kb_dir, snapshot_dir, changelog_json, index_json, history>>
processorVars == <<documents, previous_state, merged_docs, changelog_entries>>
mergerVars ==
    <<mdx_pages, canonical_pages, openapi_endpoints, scraped_content, merged_pages>>
parserVars == <<openapi_spec, expanded_schema>>
sourceVars == <<appended, fetch, gather, scraper>>

DedupIdle ==
    /\ pages = <<>> /\ threshold = DefaultThreshold /\ exact_pages = <<>>
    /\ unique_pages = <<>> /\ similar_log = <<>>

StoreEmpty ==
    /\ clock = 0 /\ kb_dir = <<>> /\ snapshot_dir = <<>>
    /\ changelog_json = NoChangelog /\ index_json = None /\ history = NoHistory

ProcessorIdle ==
    /\ documents = <<>> /\ previous_state = None /\ merged_docs = <<>>
    /\ changelog_entries = <<>>

MergerIdle ==
    /\ mdx_pages = <<>> /\ canonical_pages = <<>> /\ openapi_endpoints = <<>>
    /\ scraped_content = <<>> /\ merged_pages = <<>>

ParserIdle == openapi_spec = <<>> /\ expanded_schema = None

FetcherIdle == fetch = NoFetch /\ gather = NoGather

ScraperIdle == scraper = NoScraper

SourcesIdle == appended = <<>> /\ FetcherIdle /\ ScraperIdle

InitDiffer ==
    /\ \E U \in {T \in SUBSET DiffPaths : Cardinality(T) <= MaxUnion} :
         \E om \in Manifests(U), nm \in Manifests(U) :
            /\ DOMAIN om \cup DOMAIN nm = U
            /\ old_snapshot = [timestamp |-> 1, page_manifest |-> om]
            /\ new_snapshot = [timestamp |-> 1 + TicksPerSec, page_manifest |-> nm]
    /\ diff_report = None
    /\ pc = "ready"
    /\ DedupIdle /\ StoreEmpty
    /\ ProcessorIdle /\ MergerIdle /\ ParserIdle /\ SourcesIdle

\* Differ.diff_snapshots(old_snapshot, new_snapshot)
Diff ==
    /\ pc = "ready"
    /\ diff_report' = Some(diff_snapshots(old_snapshot, new_snapshot))
    /\ pc' = "diffed"
    /\ UNCHANGED <<processorVars, mergerVars, parserVars, sourceVars,
                   old_snapshot, new_snapshot, dedupVars, storeVars>>

NextDiffer == Diff

SpecDiffer == InitDiffer /\ [][NextDiffer]_vars

(***************************************************************************)
(* The deduplicator on one page set                                        *)
(***************************************************************************)

InitDedup ==
    /\ pages \in PageSeqs(DedupPaths, Contents, MaxPages)
    /\ threshold \in Thresholds
    /\ exact_pages = <<>> /\ unique_pages = <<>> /\ similar_log = <<>>
    /\ pc = "ready"
    /\ old_snapshot = NoSnapshot /\ new_snapshot = NoSnapshot /\ diff_report = None
    /\ StoreEmpty
    /\ ProcessorIdle /\ MergerIdle /\ ParserIdle /\ SourcesIdle

\* Deduplicator(pages).deduplicate_exact()
DeduplicateExact ==
    /\ pc = "ready"
    /\ exact_pages' = deduplicate_exact(pages)
    /\ pc' = "exact"
    /\ UNCHANGED <<processorVars, mergerVars, parserVars, sourceVars,
                   pages, threshold, unique_pages, similar_log, differVars, storeVars>>

\* Deduplicator(pages).deduplicate_similar(threshold)
DeduplicateSimilar ==
    /\ pc = "ready"
    /\ exact_pages' = deduplicate_exact(pages)
    /\ unique_pages' = deduplicate_similar(pages, threshold)
    /\ similar_log' = similarity_pass(pages, threshold).log
    /\ pc' = "similar"
    /\ UNCHANGED <<processorVars, mergerVars, parserVars, sourceVars,
                   pages, threshold, differVars, storeVars>>

NextDedup == DeduplicateExact \/ DeduplicateSimilar

SpecDedup == InitDedup /\ [][NextDedup]_vars

(***************************************************************************)
(* The build command: cli.py _build_pipeline, from the deduplication on    *)
(***************************************************************************)

BuildSteps == {"dedup", "write", "index", "snapshot", "save", "changelog"}

\* datetime.now(): later than every earlier reading
Now(t) == t > clock /\ t <= clock + MaxAdvance /\ t <= MaxClock

InitBuild ==
    /\ StoreEmpty
    /\ DedupIdle
    /\ ProcessorIdle /\ MergerIdle /\ ParserIdle /\ SourcesIdle
    /\ old_snapshot = NoSnapshot /\ new_snapshot = NoSnapshot /\ diff_report = None
    /\ pc = "idle"

\* the merged pages reach Deduplicator(merged_pages)
StartBuild ==
    /\ pc \in {"idle", "done", "failed"}
    /\ history.builds < MaxBuilds
    /\ \E merged \in PageSeqs(BuildPaths, BuildContents, MaxBuildPages) :
         pages' = merged
    /\ history' = [history EXCEPT
                     !.builds = @ + 1,
                     !.store_at_start = snapshot_dir,
                     !.changelog_at_start = changelog_json,
                     !.prev = IF pc = "done"
                              THEN Some([input |-> pages, snapshot |-> new_snapshot])
                              ELSE @]
    /\ pc' = "dedup"
    /\ UNCHANGED <<processorVars, mergerVars, parserVars, sourceVars,
                   threshold, exact_pages, unique_pages, similar_log, differVars,
                   clock, kb_dir, snapshot_dir, changelog_json, index_json>>

\* unique_pages = deduplicator.deduplicate_similar(use_llm=not skip_llm)
Deduplicate ==
    /\ pc = "dedup"
    /\ exact_pages' = deduplicate_exact(pages)
    /\ unique_pages' = deduplicate_similar(pages, DefaultThreshold)
    /\ similar_log' = similarity_pass(pages, DefaultThreshold).log
    /\ pc' = "write"
    /\ UNCHANGED <<processorVars, mergerVars, parserVars, sourceVars,
                   pages, threshold, differVars, storeVars>>

\* kb_writer.write_all(unique_pages)
WriteAll ==
    /\ pc = "write"
    /\ \E now \in 1..MaxClock :
         /\ Now(now)
         /\ clock' = now
         /\ kb_dir' = write_all(kb_dir, unique_pages, now)
    /\ pc' = "index"
    /\ UNCHANGED <<processorVars, mergerVars, parserVars, sourceVars,
                   dedupVars, differVars, snapshot_dir, changelog_json, index_json,
                   history>>

\* index_writer.write_index(page_metadata, endpoints); write_manifest(...)
\* (the two files are no *.md files: only their page list is kept here)
WriteIndex ==
    /\ pc = "index"
    /\ index_json' = Some([pages |-> {unique_pages[i].path : i \in 1..Len(unique_pages)},
                           page_count |-> Len(unique_pages)])
    /\ pc' = "snapshot"
    /\ UNCHANGED <<processorVars, mergerVars, parserVars, sourceVars,
                   dedupVars, differVars, clock, kb_dir, snapshot_dir, changelog_json,
                   history>>

\* new_snapshot = snapshot_mgr.create_snapshot(Path("knowledge_base"), ...)
CreateSnapshot ==
    /\ pc = "snapshot"
    /\ \E now \in 1..MaxClock :
         /\ Now(now)
         /\ clock' = now
         /\ new_snapshot' = create_snapshot(kb_dir, changelog_json, now)
    /\ pc' = "save"
    /\ UNCHANGED <<processorVars, mergerVars, parserVars, sourceVars,
                   dedupVars, old_snapshot, diff_report, kb_dir, snapshot_dir,
                   changelog_json, index_json, history>>

\* snapshot_mgr.save_snapshot(new_snapshot)
SaveSnapshot ==
    /\ pc = "save"
    /\ snapshot_dir' = save_snapshot(snapshot_dir, new_snapshot)
    /\ history' = [history EXCEPT !.saved = Append(@, dump_snapshot(new_snapshot))]
    /\ pc' = "changelog"
    /\ UNCHANGED <<processorVars, mergerVars, parserVars, sourceVars,
                   dedupVars, differVars, clock, kb_dir, changelog_json, index_json>>

\* old_snapshot = load_latest_snapshot(); diff and append when it is another
\* snapshot than new_snapshot
GenerateChangelog ==
    /\ pc = "changelog"
    /\ LET latest == load_latest_snapshot(snapshot_dir)
       IN  IF latest # None /\ latest[1].timestamp # new_snapshot.timestamp
           THEN /\ old_snapshot' = latest[1]
                /\ diff_report' = Some(diff_snapshots(latest[1], new_snapshot))
                /\ changelog_json' =
                      append_to_existing(changelog_json,
                                         diff_snapshots(latest[1], new_snapshot))
           ELSE /\ old_snapshot' = IF latest = None THEN NoSnapshot ELSE latest[1]
                /\ UNCHANGED <<diff_report, changelog_json>>
    /\ pc' = "done"
    /\ UNCHANGED <<processorVars, mergerVars, parserVars, sourceVars,
                   dedupVars, new_snapshot, clock, kb_dir, snapshot_dir, index_json,
                   history>>

\* an exception leaves _build_pipeline: the build command exits with 1
Fail ==
    /\ pc \in BuildSteps
    /\ pc' = "failed"
    /\ UNCHANGED <<processorVars, mergerVars, parserVars, sourceVars,
                   dedupVars, differVars, storeVars>>

NextBuild ==
    \/ StartBuild
    \/ Deduplicate
    \/ WriteAll
    \/ WriteIndex
    \/ CreateSnapshot
    \/ SaveSnapshot
    \/ GenerateChangelog
    \/ Fail

SpecBuild == InitBuild /\ [][NextBuild]_vars

(***************************************************************************)
(* SnapshotManager.create_snapshot on a knowledge base directory           *)
(***************************************************************************)

SnapshotPaths == {<<"a", ".md">>, <<"b", ".md">>}

SnapshotContents == {
    <<"#", "_", "a", "nl", "a", "_", "b">>,
    <<"#", "_", "A", "nl", "a", "_", "_", "b">>,
    <<"b", "_", "a">> }

\* the files KBWriter has written into knowledge_base/ by tick `last`
WrittenFiles(last) == {write_page(c, t) : c \in SnapshotContents, t \in 1..last}

InitSnapshot ==
    /\ clock = MaxAdvance
    /\ \E T \in SUBSET SnapshotPaths : kb_dir \in [T -> WrittenFiles(MaxAdvance)]
    /\ changelog_json \in {NoChangelog, [exists |-> TRUE, reports |-> <<>>]}
    /\ snapshot_dir = <<>> /\ index_json = None /\ history = NoHistory
    /\ old_snapshot = NoSnapshot /\ new_snapshot = NoSnapshot /\ diff_report = None
    /\ pc = "ready"
    /\ DedupIdle /\ ProcessorIdle /\ MergerIdle /\ ParserIdle /\ SourcesIdle

\* snapshot_mgr.create_snapshot(Path("knowledge_base"))
TakeSnapshot ==
    /\ pc = "ready"
    /\ \E now \in 1..MaxClock :
         /\ Now(now)
         /\ clock' = now
         /\ new_snapshot' = create_snapshot(kb_dir, changelog_json, now)
    /\ pc' = "snapshot_taken"
    /\ UNCHANGED <<processorVars, mergerVars, parserVars, sourceVars, dedupVars,
                   old_snapshot, diff_report, kb_dir, snapshot_dir,
                   changelog_json, index_json, history>>

NextSnapshot == TakeSnapshot

SpecSnapshot == InitSnapshot /\ [][NextSnapshot]_vars

(***************************************************************************)
(* docusynthetic: one build of the DocumentProcessor                       *)
(***************************************************************************)

InitProcessor ==
    /\ documents \in UNION {[1..n -> Documents] : n \in 0..MaxDocs}
    /\ previous_state \in PreviousStates
    /\ merged_docs = <<>>
    /\ changelog_entries = <<>>
    /\ pc = "fetched"
    /\ old_snapshot = NoSnapshot /\ new_snapshot = NoSnapshot /\ diff_report = None
    /\ DedupIdle /\ StoreEmpty /\ MergerIdle /\ ParserIdle /\ SourcesIdle

\* merged_docs = processor.merge_documents(all_documents)
MergeDocuments ==
    /\ pc = "fetched"
    /\ merged_docs' = merge_documents(documents)
    /\ pc' = "merged"
    /\ UNCHANGED <<documents, previous_state, changelog_entries, differVars,
                   dedupVars, storeVars, mergerVars, parserVars, sourceVars>>

\* previous_state = processor.load_previous_state()
\* changes = processor.detect_changes(previous_state, merged_docs)
DetectChanges ==
    /\ pc = "merged"
    /\ changelog_entries' = detect_changes(previous_state, merged_docs)
    /\ pc' = "detected"
    /\ UNCHANGED <<documents, previous_state, merged_docs, differVars,
                   dedupVars, storeVars, mergerVars, parserVars, sourceVars>>

\* processor.save_state(merged_docs, index)
SaveState ==
    /\ pc = "detected"
    /\ previous_state' = save_state(merged_docs)
    /\ pc' = "saved"
    /\ UNCHANGED <<documents, merged_docs, changelog_entries, differVars,
                   dedupVars, storeVars, mergerVars, parserVars, sourceVars>>

NextProcessor == MergeDocuments \/ DetectChanges \/ SaveState

SpecProcessor == InitProcessor /\ [][NextProcessor]_vars

(***************************************************************************)
(* The Merger on the sources of one build                                  *)
(***************************************************************************)

InitMerger ==
    /\ mdx_pages \in UNION {[T -> MdxContents \cup {<<>>}] : T \in SUBSET MergerPaths}
    /\ canonical_pages \in UNION {[1..n -> PageInfos] : n \in 0..MaxCanonical}
    /\ openapi_endpoints \in EndpointLists
    /\ scraped_content \in ScrapedContents
    /\ merged_pages = <<>>
    /\ pc = "parsed"
    /\ old_snapshot = NoSnapshot /\ new_snapshot = NoSnapshot /\ diff_report = None
    /\ DedupIdle /\ StoreEmpty /\ ProcessorIdle /\ ParserIdle /\ SourcesIdle

\* merged_pages = merger.merge_all()
MergeAll ==
    /\ pc = "parsed"
    /\ merged_pages' = merge_all(canonical_pages, mdx_pages, openapi_endpoints,
                                 scraped_content, <<>>)
    /\ pc' = "merged"
    /\ UNCHANGED <<mdx_pages, canonical_pages, openapi_endpoints, scraped_content,
                   differVars, dedupVars, storeVars, processorVars, parserVars, sourceVars>>

NextMerger == MergeAll

SpecMerger == InitMerger /\ [][NextMerger]_vars

(***************************************************************************)
(* OpenAPIParser._expand_schema on one document                            *)
(***************************************************************************)

InitParser ==
    /\ openapi_spec \in [1..MaxNodes -> SchemaNodes(MaxNodes)]
    /\ expanded_schema = None
    /\ pc = "parsed"
    /\ old_snapshot = NoSnapshot /\ new_snapshot = NoSnapshot /\ diff_report = None
    /\ DedupIdle /\ StoreEmpty /\ ProcessorIdle /\ MergerIdle /\ SourcesIdle

\* self._expand_schema(schema) for a parameter, response or body schema:
\* object 1 of the table is the schema handed in
ExpandSchema ==
    /\ pc = "parsed"
    /\ expanded_schema' = Some(_expand_schema(openapi_spec, 1, 0))
    /\ pc' = "expanded"
    /\ UNCHANGED <<openapi_spec, differVars, dedupVars, storeVars, processorVars,
                   mergerVars, sourceVars>>

NextParser == ExpandSchema

SpecParser == InitParser /\ [][NextParser]_vars

(***************************************************************************)
(* sources/github_fetcher.py: fetch_file on one path                       *)
(***************************************************************************)

MaxCalls == 2        \* fetch_file calls on the path, over the builds

max_retries == 3

\* what one client.get can end in: a status code, or "error" for an
\* exception of the client (timeout, connection error)
Outcomes == {"200", "204", "401", "403", "404", "500", "error"}

\* the text upstream serves for the path, in the blocks it is written in
UpstreamBodies == {<<"c1", "c2">>, <<"d1", "d2">>}

\* the steps of the cache write of lines 83-88: each is an await
WriteSteps == {"open_payload", "write_payload", "open_meta", "write_meta"}

\* return "", {}
ReturnEmpty(f) == [f EXCEPT !.pc = "returned", !.result = Some(<<>>)]

\* the except clause of the loop body: sleep and go on, or give up on the
\* last attempt
OnException(f) ==
    IF f.attempt < max_retries - 1 THEN [f EXCEPT !.pc = "sleep"] ELSE ReturnEmpty(f)

\* the next iteration of `for attempt in range(max_retries)`, or the return
\* after the loop
NextAttempt(f) ==
    IF f.attempt < max_retries - 1
    THEN [f EXCEPT !.pc = "request", !.attempt = @ + 1]
    ELSE ReturnEmpty(f)

\* the cache read at the head of fetch_file: a hit needs only the payload
\* file; a .meta that does not parse makes json.loads raise
ReadCache(f) ==
    IF f.cache_meta = Some("truncated")
    THEN [f EXCEPT !.pc = "raised"]
    ELSE [f EXCEPT !.pc = "returned", !.result = f.cache_payload]

InitFetch ==
    /\ fetch = NoFetch
    /\ gather = NoGather
    /\ appended = <<>>
    /\ pc = "fetching"
    /\ old_snapshot = NoSnapshot /\ new_snapshot = NoSnapshot /\ diff_report = None
    /\ DedupIdle /\ StoreEmpty /\ ProcessorIdle /\ MergerIdle /\ ParserIdle
    /\ ScraperIdle

FetchUnchanged ==
    UNCHANGED <<differVars, dedupVars, storeVars, processorVars, mergerVars,
                parserVars, pc, appended, gather, scraper>>

\* fetch_file(path, use_cache), up to the first request
FetchFile ==
    /\ fetch.pc \in {"idle", "returned", "raised", "cancelled"}
    /\ fetch.calls < MaxCalls
    /\ \E use_cache \in BOOLEAN :
         LET called == [fetch EXCEPT !.calls = @ + 1, !.use_cache = use_cache,
                                     !.attempt = 0, !.sent = 0, !.responses = <<>>,
                                     !.body = <<>>, !.result = None]
         IN  fetch' = IF use_cache /\ fetch.cache_payload # None
                      THEN ReadCache(called)
                      ELSE [called EXCEPT !.pc = "request"]
    /\ FetchUnchanged

\* await client.get(url, ...)
SendRequest ==
    /\ fetch.pc = "request"
    /\ fetch' = [fetch EXCEPT !.pc = "in_flight", !.sent = @ + 1]
    /\ FetchUnchanged

\* the request ends: the branches on response.status_code, and the except
\* clause for raise_for_status and for an exception of the client
Respond ==
    /\ fetch.pc = "in_flight"
    /\ \E outcome \in Outcomes, content \in UpstreamBodies :
         LET got == [fetch EXCEPT !.responses = Append(@, outcome)]
         IN  fetch' =
               CASE outcome = "200" -> [got EXCEPT !.pc = "open_payload", !.body = content]
                 [] outcome = "404" -> ReturnEmpty(got)
                 [] outcome = "403" -> [got EXCEPT !.pc = "sleep"]
                 [] outcome = "204" -> NextAttempt(got)
                 [] OTHER -> OnException(got)
    /\ FetchUnchanged

\* await asyncio.sleep(retry_delay * (2**attempt)) is over
Wake ==
    /\ fetch.pc = "sleep"
    /\ fetch' = NextAttempt(fetch)
    /\ FetchUnchanged

\* aiofiles.open(cache_path, "w"): the payload file exists and is empty
OpenPayload ==
    /\ fetch.pc = "open_payload"
    /\ fetch' = [fetch EXCEPT !.pc = "write_payload", !.cache_payload = Some(<<>>)]
    /\ FetchUnchanged

\* f.write(content): one more block of the content reaches the file
WritePayload ==
    /\ fetch.pc = "write_payload"
    /\ LET written == Len(fetch.cache_payload[1])
           payload == Append(fetch.cache_payload[1], fetch.body[written + 1])
       IN  fetch' = [fetch EXCEPT
                        !.cache_payload = Some(payload),
                        !.pc = IF payload = fetch.body THEN "open_meta"
                               ELSE "write_payload"]
    /\ FetchUnchanged

\* aiofiles.open(cache_meta_path, "w")
OpenMeta ==
    /\ fetch.pc = "open_meta"
    /\ fetch' = [fetch EXCEPT !.pc = "write_meta", !.cache_meta = Some("truncated")]
    /\ FetchUnchanged

\* f.write(json.dumps(metadata)); return content, metadata
WriteMeta ==
    /\ fetch.pc = "write_meta"
    /\ fetch' = [fetch EXCEPT !.pc = "returned", !.cache_meta = Some("complete"),
                              !.result = Some(fetch.body)]
    /\ FetchUnchanged

\* mkdir, open or write raises OSError: the cache write is inside the try
\* of the loop body, so the except clause handles it
WriteFails ==
    /\ fetch.pc \in WriteSteps
    /\ fetch' = OnException([fetch EXCEPT !.write_failed = TRUE])
    /\ FetchUnchanged

\* the build is cancelled: CancelledError leaves fetch_file at the await it
\* is suspended in (`except Exception` does not catch it)
Cancel ==
    /\ fetch.pc \in {"in_flight", "sleep"} \cup WriteSteps
    /\ fetch' = [fetch EXCEPT !.pc = "cancelled",
                              !.write_cancelled = @ \/ fetch.pc \in WriteSteps]
    /\ FetchUnchanged

NextFetch ==
    \/ FetchFile \/ SendRequest \/ Respond \/ Wake
    \/ OpenPayload \/ WritePayload \/ OpenMeta \/ WriteMeta
    \/ WriteFails \/ Cancel

SpecFetch == InitFetch /\ [][NextFetch]_vars

(***************************************************************************)
(* sources/github_fetcher.py: fetch_all_pages                              *)
(*                                                                         *)
(* The fetch_file tasks of one gather run the same code on different       *)
(* paths, so the state counts the tasks at each position instead of        *)
(* naming them.                                                            *)
(***************************************************************************)

MaxPaths == 17       \* len(page_paths)

InFlight(g) == g.in_flight[1] + g.in_flight[2] + g.in_flight[3]

Sleeping(g) == g.sleeping[1] + g.sleeping[2] + g.sleeping[3]

\* a task in its attempt-th iteration goes on with the next iteration, or
\* leaves the loop and returns "", {}
TaskNextAttempt(g, attempt) ==
    IF attempt < max_retries
    THEN [g EXCEPT !.in_flight[attempt + 1] = @ + 1]
    ELSE [g EXCEPT !.returned = @ + 1]

\* the except clause in the attempt-th iteration
TaskOnException(g, attempt) ==
    IF attempt < max_retries
    THEN [g EXCEPT !.sleeping[attempt] = @ + 1]
    ELSE [g EXCEPT !.returned = @ + 1]

InitGather ==
    /\ gather = NoGather
    /\ fetch = NoFetch
    /\ appended = <<>>
    /\ pc = "fetching"
    /\ old_snapshot = NoSnapshot /\ new_snapshot = NoSnapshot /\ diff_report = None
    /\ DedupIdle /\ StoreEmpty /\ ProcessorIdle /\ MergerIdle /\ ParserIdle
    /\ ScraperIdle

GatherUnchanged ==
    UNCHANGED <<differVars, dedupVars, storeVars, processorVars, mergerVars,
                parserVars, pc, appended, fetch, scraper>>

\* tasks = [self.fetch_file(path, use_cache) for path in page_paths];
\* asyncio.gather(*tasks, return_exceptions=True)
FetchAllPages ==
    /\ gather.pc = "idle"
    /\ gather' = [gather EXCEPT !.pc = "gathering", !.pending = MaxPaths]
    /\ GatherUnchanged

\* a task runs up to its first await: it returns the cache entry of its
\* path, or it sends its first request
TaskStart ==
    /\ gather.pc = "gathering"
    /\ gather.pending > 0
    /\ \E cached \in BOOLEAN :
         gather' = IF cached
                   THEN [gather EXCEPT !.pending = @ - 1, !.returned = @ + 1]
                   ELSE [gather EXCEPT !.pending = @ - 1, !.in_flight[1] = @ + 1]
    /\ GatherUnchanged

\* the request of a task ends (the cache write of a 200 included)
TaskRespond ==
    /\ gather.pc = "gathering"
    /\ \E attempt \in 1..max_retries, outcome \in Outcomes :
         /\ gather.in_flight[attempt] > 0
         /\ LET g == [gather EXCEPT !.in_flight[attempt] = @ - 1]
            IN  gather' =
                  CASE outcome \in {"200", "404"} -> [g EXCEPT !.returned = @ + 1]
                    [] outcome = "403" -> [g EXCEPT !.sleeping[attempt] = @ + 1]
                    [] outcome = "204" -> TaskNextAttempt(g, attempt)
                    [] OTHER -> TaskOnException(g, attempt)
    /\ GatherUnchanged

\* the sleep of a task is over
TaskWake ==
    /\ gather.pc = "gathering"
    /\ \E attempt \in 1..max_retries :
         /\ gather.sleeping[attempt] > 0
         /\ gather' = TaskNextAttempt([gather EXCEPT !.sleeping[attempt] = @ - 1],
                                      attempt)
    /\ GatherUnchanged

\* every task is done: pages holds the contents that are not empty, which
\* some of the results are
GatherReturns ==
    /\ gather.pc = "gathering"
    /\ gather.pending = 0 /\ InFlight(gather) = 0 /\ Sleeping(gather) = 0
    /\ \E with_content \in 0..gather.returned :
         gather' = [gather EXCEPT !.pc = "returned", !.pages = with_content]
    /\ GatherUnchanged

NextGather == FetchAllPages \/ TaskStart \/ TaskRespond \/ TaskWake \/ GatherReturns

SpecGather == InitGather /\ [][NextGather]_vars

(***************************************************************************)
(* sources/web_scraper.py                                                  *)
(***************************************************************************)

MaxUrls == 2         \* len(urls) of scrape_all
MaxRuns == 2         \* builds that scrape, on one cache directory

PAGES_TO_SCRAPE == <<
    <<"https://docs.venice.ai/", "models", "/", "overview">>,
    <<"https://docs.venice.ai/", "models", "/", "text">>,
    <<"https://docs.venice.ai/", "models", "/", "image">>,
    <<"https://docs.venice.ai/", "models", "/", "audio">>,
    <<"https://docs.venice.ai/", "models", "/", "video">>,
    <<"https://docs.venice.ai/", "models", "/", "embeddings">>,
    <<"https://docs.venice.ai/", "overview", "/", "pricing">>,
    <<"https://docs.venice.ai/", "overview", "/", "beta-models">> >>

\* await page.content() of a page that rendered
RenderedPage(url) ==
    <<"<div>", "<!-- rendered -->">> \o url \o <<"<table>", "gpt", "</table>", "</div>">>

\* f'<div class="fallback">[Dynamic content - see {url}]</div>'
FallbackDiv(url) == <<"<div class=\"fallback\">">> \o FallbackText(url) \o <<"</div>">>

PendingTask == [pc |-> "pending", driver |-> 0]

\* self.playwright = await async_playwright().start()
StartDriver(sc) ==
    [sc EXCEPT !.drivers = Append(@, "started"), !.playwright = Len(sc.drivers) + 1]

\* self.browser = await self.playwright.chromium.launch(headless=True), on
\* the driver the caller started; self.playwright_available = True
LaunchBrowser(sc, d) ==
    [sc EXCEPT !.browsers = Append(@, [driver |-> d, state |-> "open"]),
               !.browser = Len(sc.browsers) + 1,
               !.playwright_available = TRUE]

\* the except clause of _init_playwright
InitFailed(sc) == [sc EXCEPT !.playwright_available = FALSE]

\* the fallback of scrape_page: written to the cache file and returned
Fallback(sc, u) ==
    [sc EXCEPT !.cache[u] = Some(FallbackDiv(PAGES_TO_SCRAPE[u])),
               !.results[u] = Some(FallbackDiv(PAGES_TO_SCRAPE[u])),
               !.task[u] = [pc |-> "done", driver |-> 0]]

\* scrape_page after the init: with a browser the page is opened and the
\* navigation starts, else the fallback is returned
Render(sc, u) ==
    IF sc.playwright_available /\ sc.browser # 0
    THEN [sc EXCEPT !.task[u] = [pc |-> "goto", driver |-> 0]]
    ELSE Fallback(sc, u)

\* the finally of scrape_all, from the given step of _close_playwright on
CloseFrom(sc, step) ==
    IF step = "close_browser" /\ sc.browser # 0 THEN [sc EXCEPT !.pc = "close_browser"]
    ELSE IF sc.playwright # 0 THEN [sc EXCEPT !.pc = "stop_playwright"]
    ELSE [sc EXCEPT !.pc = "returned"]

InitScraper ==
    /\ scraper = NoScraper
    /\ fetch = NoFetch /\ gather = NoGather
    /\ appended = <<>>
    /\ pc = "fetching"
    /\ old_snapshot = NoSnapshot /\ new_snapshot = NoSnapshot /\ diff_report = None
    /\ DedupIdle /\ StoreEmpty /\ ProcessorIdle /\ MergerIdle /\ ParserIdle

ScraperUnchanged ==
    UNCHANGED <<differVars, dedupVars, storeVars, processorVars, mergerVars,
                parserVars, pc, appended, fetch, gather>>

\* WebScraper(skip_scraping=...).scrape_all(urls, use_cache), up to the
\* first await of _init_playwright
ScrapeAll ==
    /\ scraper.pc \in {"idle", "returned", "raised"}
    /\ scraper.runs < MaxRuns
    /\ \E use_cache \in BOOLEAN, skip_scraping \in BOOLEAN :
         scraper' =
            [pc |-> IF skip_scraping THEN "gathering" ELSE "init_start",
             runs |-> scraper.runs + 1,
             use_cache |-> use_cache, skip_scraping |-> skip_scraping,
             playwright_available |-> FALSE, playwright |-> 0, browser |-> 0,
             driver |-> 0, drivers |-> <<>>, browsers |-> <<>>,
             task |-> [u \in 1..MaxUrls |-> PendingTask],
             results |-> [u \in 1..MaxUrls |-> None],
             cache |-> IF scraper.runs = 0 THEN [u \in 1..MaxUrls |-> None]
                       ELSE scraper.cache]
    /\ ScraperUnchanged

\* scrape_all's _init_playwright: async_playwright().start() ends
InitStart ==
    /\ scraper.pc = "init_start"
    /\ \E ok \in BOOLEAN :
         scraper' =
            IF ok
            THEN [StartDriver(scraper) EXCEPT !.pc = "init_launch",
                                              !.driver = Len(scraper.drivers) + 1]
            ELSE [InitFailed(scraper) EXCEPT !.pc = "gathering"]
    /\ ScraperUnchanged

\* scrape_all's _init_playwright: chromium.launch() ends; the tasks are made
InitLaunch ==
    /\ scraper.pc = "init_launch"
    /\ \E ok \in BOOLEAN :
         scraper' =
            [(IF ok THEN LaunchBrowser(scraper, scraper.driver)
                    ELSE InitFailed(scraper))
                EXCEPT !.pc = "gathering"]
    /\ ScraperUnchanged

\* a scrape_page task runs up to its first await: the cache read, or the
\* call of _init_playwright, or the navigation
TaskBegins ==
    /\ scraper.pc = "gathering"
    /\ \E u \in 1..MaxUrls :
         /\ scraper.task[u].pc = "pending"
         /\ scraper' =
              IF scraper.use_cache /\ scraper.cache[u] # None
              THEN [scraper EXCEPT !.results[u] = scraper.cache[u],
                                   !.task[u] = [pc |-> "cached", driver |-> 0]]
              ELSE IF ~scraper.playwright_available /\ ~scraper.skip_scraping
              THEN [scraper EXCEPT !.task[u] = [pc |-> "init_start", driver |-> 0]]
              ELSE Render(scraper, u)
    /\ ScraperUnchanged

\* a task's _init_playwright: async_playwright().start() ends
TaskInitStart ==
    /\ scraper.pc = "gathering"
    /\ \E u \in 1..MaxUrls, ok \in BOOLEAN :
         /\ scraper.task[u].pc = "init_start"
         /\ scraper' =
              IF ok
              THEN [StartDriver(scraper) EXCEPT
                       !.task[u] = [pc |-> "init_launch",
                                    driver |-> Len(scraper.drivers) + 1]]
              ELSE Render(InitFailed(scraper), u)
    /\ ScraperUnchanged

\* a task's _init_playwright: chromium.launch() ends
TaskInitLaunch ==
    /\ scraper.pc = "gathering"
    /\ \E u \in 1..MaxUrls, ok \in BOOLEAN :
         /\ scraper.task[u].pc = "init_launch"
         /\ scraper' =
              Render(IF ok THEN LaunchBrowser(scraper, scraper.task[u].driver)
                           ELSE InitFailed(scraper), u)
    /\ ScraperUnchanged

\* page.goto (and the steps after it) ends: the rendered page is cached and
\* returned, or the except clause leads to the fallback
Navigate ==
    /\ scraper.pc = "gathering"
    /\ \E u \in 1..MaxUrls, ok \in BOOLEAN :
         /\ scraper.task[u].pc = "goto"
         /\ scraper' =
              IF ok
              THEN [scraper EXCEPT
                       !.cache[u] = Some(RenderedPage(PAGES_TO_SCRAPE[u])),
                       !.results[u] = Some(RenderedPage(PAGES_TO_SCRAPE[u])),
                       !.task[u] = [pc |-> "done", driver |-> 0]]
              ELSE Fallback(scraper, u)
    /\ ScraperUnchanged

\* asyncio.gather returns; finally: await self._close_playwright()
GatherDone ==
    /\ scraper.pc = "gathering"
    /\ \A u \in 1..MaxUrls : scraper.task[u].pc \in {"done", "cached"}
    /\ scraper' = CloseFrom(scraper, "close_browser")
    /\ ScraperUnchanged

\* await self.browser.close(): an exception leaves _close_playwright and
\* scrape_all
CloseBrowser ==
    /\ scraper.pc = "close_browser"
    /\ \E ok \in BOOLEAN :
         scraper' =
            IF ok
            THEN CloseFrom([scraper EXCEPT !.browsers[scraper.browser].state = "closed"],
                           "stop_playwright")
            ELSE [scraper EXCEPT !.pc = "raised"]
    /\ ScraperUnchanged

\* await self.playwright.stop(): the driver ends, and with it the browsers
\* launched on it
StopPlaywright ==
    /\ scraper.pc = "stop_playwright"
    /\ scraper' =
          [scraper EXCEPT
              !.pc = "returned",
              !.drivers[scraper.playwright] = "stopped",
              !.browsers = [b \in 1..Len(scraper.browsers) |->
                              IF scraper.browsers[b].driver = scraper.playwright
                              THEN [scraper.browsers[b] EXCEPT !.state = "closed"]
                              ELSE scraper.browsers[b]]]
    /\ ScraperUnchanged

NextScraper ==
    \/ ScrapeAll \/ InitStart \/ InitLaunch
    \/ TaskBegins \/ TaskInitStart \/ TaskInitLaunch \/ Navigate
    \/ GatherDone \/ CloseBrowser \/ StopPlaywright

SpecScraper == InitScraper /\ [][NextScraper]_vars

(***************************************************************************)
(* ChangelogWriter.append_to_existing, called build after build            *)
(***************************************************************************)

InitAppend ==
    /\ clock = 0 /\ kb_dir = <<>> /\ snapshot_dir = <<>>
    /\ changelog_json = NoChangelog /\ index_json = None /\ history = NoHistory
    /\ appended = <<>>
    /\ pc = "ready"
    /\ old_snapshot = NoSnapshot /\ new_snapshot = NoSnapshot /\ diff_report = None
    /\ DedupIdle /\ ProcessorIdle /\ MergerIdle /\ ParserIdle
    /\ FetcherIdle /\ ScraperIdle

\* changelog_writer.append_to_existing(diff_report)
AppendToExisting ==
    /\ pc = "ready"
    /\ Len(appended) < MaxAppends
    /\ \E new_report \in AppendReports :
         /\ changelog_json' = append_to_existing(changelog_json, new_report)
         /\ appended' = Append(appended, new_report)
    /\ UNCHANGED <<differVars, dedupVars, processorVars, mergerVars, parserVars,
                   clock, kb_dir, snapshot_dir, index_json, history, pc,
                   fetch, gather, scraper>>

NextAppend == AppendToExisting

SpecAppend == InitAppend /\ [][NextAppend]_vars

(***************************************************************************)
(* The `changelog` command on a directory of snapshots                     *)
(***************************************************************************)

InitChangelog ==
    /\ snapshot_dir \in SnapshotStores
    /\ clock = 0 /\ kb_dir = <<>>
    /\ changelog_json = NoChangelog /\ index_json = None /\ history = NoHistory
    /\ pc = "ready"
    /\ old_snapshot = NoSnapshot /\ new_snapshot = NoSnapshot /\ diff_report = None
    /\ DedupIdle /\ ProcessorIdle /\ MergerIdle /\ ParserIdle /\ SourcesIdle

\* reports of the command: one diff per pair snapshots[i], snapshots[i + 1],
\* with old = load_snapshot(snapshots[i + 1]) and new = load_snapshot(snapshots[i])
changelog_reports(dir) ==
    LET snapshots == list_snapshots(dir)
    IN  [i \in 1..(Len(snapshots) - 1) |->
            diff_snapshots(load_snapshot(dir[snapshots[i + 1]]),
                           load_snapshot(dir[snapshots[i]]))]

\* fewer than two snapshots: the command prints a notice and writes nothing
ChangelogCommand ==
    /\ pc = "ready"
    /\ changelog_json' =
          IF Len(list_snapshots(snapshot_dir)) < 2 THEN changelog_json
          ELSE write_changelog(changelog_reports(snapshot_dir))
    /\ pc' = "done"
    /\ UNCHANGED <<differVars, dedupVars, processorVars, mergerVars, parserVars,
                   sourceVars, clock, kb_dir, snapshot_dir, index_json, history>>

NextChangelog == ChangelogCommand

SpecChangelog == InitChangelog /\ [][NextChangelog]_vars

(***************************************************************************)
(* Properties of diff_snapshots                                            *)
(***************************************************************************)

EntriesFor(report, p) ==
    {i \in 1..Len(get_all_changes(report)) : get_all_changes(report)[i].path = p}

TypesFor(report, p) ==
    {get_all_changes(report)[i].change_type : i \in EntriesFor(report, p)}

\* C1: diff_snapshots emits exactly one entry per path whose presence or
\* hash differs: added for a path only in new, removed for a path only in
\* old, modified for a path in both with different hashes; and no entry for
\* a path in both with equal hashes, whatever its token count, title, tags.
C1_OneEntryPerChangedPath ==
    pc = "diffed" =>
        LET r == diff_report[1]
            om == old_snapshot.page_manifest
            nm == new_snapshot.page_manifest
        IN  \A p \in DiffPaths :
              /\ (p \in DOMAIN nm \ DOMAIN om) =>
                    Cardinality(EntriesFor(r, p)) = 1 /\ TypesFor(r, p) = {ADDED}
              /\ (p \in DOMAIN om \ DOMAIN nm) =>
                    Cardinality(EntriesFor(r, p)) = 1 /\ TypesFor(r, p) = {REMOVED}
              /\ (p \in DOMAIN om \cap DOMAIN nm /\ om[p].hash # nm[p].hash) =>
                    Cardinality(EntriesFor(r, p)) = 1 /\ TypesFor(r, p) = {MODIFIED}
              /\ (p \in DOMAIN om \cap DOMAIN nm /\ om[p].hash = nm[p].hash) =>
                    EntriesFor(r, p) = {}
              /\ (p \notin DOMAIN om \cup DOMAIN nm) => EntriesFor(r, p) = {}

\* a diff with an added page next to a page whose hash is unchanged while
\* its token count and title changed
C1_Witness ==
    /\ pc = "diffed"
    /\ \E p, q \in DiffPaths :
         /\ p \in DOMAIN old_snapshot.page_manifest \cap DOMAIN new_snapshot.page_manifest
         /\ old_snapshot.page_manifest[p].hash = new_snapshot.page_manifest[p].hash
         /\ old_snapshot.page_manifest[p].token_count
                # new_snapshot.page_manifest[p].token_count
         /\ old_snapshot.page_manifest[p].title # new_snapshot.page_manifest[p].title
         /\ q \in DOMAIN new_snapshot.page_manifest \ DOMAIN old_snapshot.page_manifest
         /\ Len(get_all_changes(diff_report[1])) = 1

\* C2: added + removed + modified + unchanged is the number of paths of the
\* two snapshots, and the four severity lists hold added + removed +
\* modified entries in all.
C2_StatsAddUp ==
    pc = "diffed" =>
        LET r == diff_report[1]
        IN  /\ r.stats.added + r.stats.removed + r.stats.modified + r.stats.unchanged
                = Cardinality(DOMAIN old_snapshot.page_manifest
                              \cup DOMAIN new_snapshot.page_manifest)
            /\ Len(r.breaking_changes) + Len(r.important_changes)
                + Len(r.informational_changes) + Len(r.cosmetic_changes)
                = r.stats.added + r.stats.removed + r.stats.modified

\* a diff that counts an unchanged page and a modified one
C2_Witness ==
    /\ pc = "diffed"
    /\ diff_report[1].stats.unchanged = 1
    /\ diff_report[1].stats.modified = 1
    /\ Len(get_all_changes(diff_report[1])) = 1

(***************************************************************************)
(* Properties of the Deduplicator                                          *)
(***************************************************************************)

\* |A \cap B| / |A \cup B| >= num / den
JaccardAtLeast(A, B, th) ==
    Cardinality(A \cap B) * th[2] >= th[1] * Cardinality(A \cup B)

Words(content) == Range(Split(Lower(content)))

\* C8: after deduplicate_similar no two surviving pages have the same
\* normalized-content hash, and no two surviving pages with non-empty token
\* sets have Jaccard similarity >= threshold.
C8_NoDuplicateSurvivors ==
    pc = "similar" =>
        \A i, j \in 1..Len(unique_pages) :
            i # j =>
              /\ _content_hash(unique_pages[i].content)
                    # _content_hash(unique_pages[j].content)
              /\ (Words(unique_pages[i].content) # {}
                  /\ Words(unique_pages[j].content) # {})
                    => ~JaccardAtLeast(Words(unique_pages[i].content),
                                       Words(unique_pages[j].content), threshold)

\* the pass removed a near-duplicate and left at least two pages
C8_Witness ==
    /\ pc = "similar"
    /\ Len(similar_log) >= 1
    /\ Len(unique_pages) >= 2

\* C9 (as claimed): the page dropped for a similar pair is the one with the
\* shorter markdown and, at equal length, the one whose path is
\* lexicographically later.
C9_DropsShorterThenLaterPath ==
    pc = "similar" =>
        \A k \in 1..Len(similar_log) :
            LET kept == similar_log[k].kept
                removed == similar_log[k].removed
            IN  /\ TextLen(removed.content) <= TextLen(kept.content)
                /\ TextLen(removed.content) = TextLen(kept.content)
                      => LexLess(kept.path, removed.path)

SameHashGroup(ps, i) ==
    {j \in 1..Len(ps) : _content_hash(ps[j].content) = _content_hash(ps[i].content)}

Survivors(ps, result, group) ==
    {j \in group : \E k \in 1..Len(result) : result[k] = ps[j]}

\* C10 (as claimed): each group of pages with equal normalized-content hash
\* leaves exactly one survivor, and it is the page of the group with the
\* shortest path.
C10_SurvivorHasShortestPath ==
    pc = "exact" =>
        \A i \in 1..Len(pages) :
            LET group == SameHashGroup(pages, i)
                alive == Survivors(pages, exact_pages, group)
            IN  /\ Cardinality(alive) = 1
                /\ \A s \in alive : \A j \in group :
                      TextLen(pages[s].path) <= TextLen(pages[j].path)

\* C10 (amended): each group of pages with equal normalized-content hash
\* leaves exactly one survivor, and it is the first page of the group in
\* the iteration order of the input.
C10_SurvivorIsFirstEncountered ==
    pc = "exact" =>
        \A i \in 1..Len(pages) :
            LET group == SameHashGroup(pages, i)
                alive == Survivors(pages, exact_pages, group)
            IN  /\ Cardinality(alive) = 1
                /\ \A s \in alive : \A j \in group : s <= j

\* a group of two whose first page has the longer path
C10_Witness ==
    /\ pc = "exact"
    /\ \E i, j \in 1..Len(pages) :
         /\ i < j
         /\ j \in SameHashGroup(pages, i)
         /\ pages[i].content # pages[j].content
         /\ TextLen(pages[i].path) > TextLen(pages[j].path)
         /\ \E k \in 1..Len(exact_pages) : exact_pages[k] = pages[i]

(***************************************************************************)
(* Properties of the build pipeline and the snapshot store                 *)
(***************************************************************************)

SurvivorPaths == {MdPath(unique_pages[i].path) : i \in 1..Len(unique_pages)}

\* C3 (as claimed): a build whose merged pages equal those of the build
\* completed before it creates a snapshot with the same page manifest, so the
\* diff of the two snapshots has no modified entry.
C3_RebuildGivesSameManifest ==
    (pc = "done" /\ history.prev # None /\ pages = history.prev[1].input) =>
        /\ new_snapshot.page_manifest = history.prev[1].snapshot.page_manifest
        /\ diff_snapshots(history.prev[1].snapshot, new_snapshot).stats.modified = 0

\* C4 (as claimed): a build that starts with a stored snapshot ends with the
\* changelog extended by the diff of the latest stored snapshot (old) and the
\* snapshot the build created (new).
C4_DiffsAgainstEarlierBuild ==
    (pc = "done" /\ DOMAIN history.store_at_start # {}) =>
        LET earlier == load_latest_snapshot(history.store_at_start)[1]
        IN  /\ old_snapshot = earlier
            /\ changelog_json.exists
            /\ changelog_json.reports =
                  <<diff_snapshots(earlier, new_snapshot)>>
                      \o history.changelog_at_start.reports

\* C5 (as claimed): every snapshot handed to save_snapshot is still stored
\* unchanged, and there are as many stored snapshots as saves.
C5_StoreIsAppendOnly ==
    /\ Cardinality(DOMAIN snapshot_dir) = Len(history.saved)
    /\ \A k \in 1..Len(history.saved) :
          \E n \in DOMAIN snapshot_dir : snapshot_dir[n] = history.saved[k]

\* C6 (as claimed): the manifest of the snapshot a build creates holds
\* exactly the pages that survived the deduplication of that build.
C6_ManifestIsSurvivors ==
    pc \in {"save", "changelog", "done"} =>
        DOMAIN new_snapshot.page_manifest = SurvivorPaths

\* C7 (as claimed): a build that fails before completion leaves the snapshot
\* store as it was when the build started.
C7_FailedBuildKeepsStore ==
    pc = "failed" => snapshot_dir = history.store_at_start

(***************************************************************************)
(* Properties of the severity classification                               *)
(***************************************************************************)

HasBreakingSignal(text) ==
    \E k \in 1..Len(BREAKING_SIGNALS) : Contains(Lower(text), BREAKING_SIGNALS[k])

ModifiedEntries(report) ==
    {i \in 1..Len(get_all_changes(report)) :
        get_all_changes(report)[i].change_type = MODIFIED}

\* C13 (as claimed): a modified page is classified breaking whenever the text
\* that changed between its old and new version contains a breaking signal,
\* whatever severity the path rule gives.
C13_BreakingSignalMakesBreaking ==
    pc = "diffed" =>
        LET all == get_all_changes(diff_report[1])
        IN  \A i \in ModifiedEntries(diff_report[1]) :
              HasBreakingSignal(ChangedText(PageText(all[i].old_hash[1]),
                                            PageText(all[i].new_hash[1])))
                  => all[i].severity = BREAKING

UnderEndpointSubtree(p) == StartsWith(p, <<"api-reference", "/", "endpoint", "/">>)

\* C14 (as claimed): a page under api-reference/endpoint/ that is in the old
\* snapshot and not in the new one yields exactly one removed entry, and its
\* severity is breaking.
C14_RemovedEndpointIsBreaking ==
    pc = "diffed" =>
        \A p \in DOMAIN old_snapshot.page_manifest \ DOMAIN new_snapshot.page_manifest :
            UnderEndpointSubtree(p) =>
              /\ Cardinality(EntriesFor(diff_report[1], p)) = 1
              /\ \A i \in EntriesFor(diff_report[1], p) :
                    /\ get_all_changes(diff_report[1])[i].change_type = REMOVED
                    /\ get_all_changes(diff_report[1])[i].severity = BREAKING

\* C15: a modified page whose severity before the adjustment is informational
\* ends cosmetic exactly when 20 * |new - old| < max(old, 1) (old = 0
\* included) and informational otherwise; an important or breaking one keeps
\* its severity however small the token change.
C15_TokenDowngrade ==
    pc = "diffed" =>
        LET all == get_all_changes(diff_report[1])
        IN  \A i \in ModifiedEntries(diff_report[1]) :
              LET old == all[i].old_token_count[1]
                  new == all[i].new_token_count[1]
                  before == classify_severity(all[i].path, MODIFIED, <<>>)
                  small == 20 * Abs(new - old) < Max(old, 1)
              IN  /\ (before = INFORMATIONAL /\ small) => all[i].severity = COSMETIC
                  /\ (before = INFORMATIONAL /\ ~small) => all[i].severity = INFORMATIONAL
                  /\ before \in {IMPORTANT, BREAKING} => all[i].severity = before

\* a diff with an informational page downgraded at old = 0 next to an
\* important page whose token count moved by less than 5 %
C15_Witness ==
    /\ pc = "diffed"
    /\ \E i, j \in ModifiedEntries(diff_report[1]) :
         LET all == get_all_changes(diff_report[1])
         IN  /\ all[i].path = <<"guides", "/", "intro", ".md">>
             /\ all[i].old_token_count = Some(0)
             /\ all[i].severity = COSMETIC
             /\ all[j].severity = IMPORTANT
             /\ all[j].old_token_count = Some(100)
             /\ all[j].new_token_count = Some(104)

\* the rule table in the order the documentation gives it
DocumentedRuleOrder == <<
    [pattern |-> <<"overview", "/", "deprecations">>, severity |-> BREAKING],
    [pattern |-> <<"api-reference", "/", "endpoint", "/">>, severity |-> IMPORTANT],
    [pattern |-> <<"api-reference", "/", "error-codes">>, severity |-> IMPORTANT],
    [pattern |-> <<"rate-limiting">>, severity |-> IMPORTANT],
    [pattern |-> <<"overview", "/", "pricing">>, severity |-> IMPORTANT],
    [pattern |-> <<"models", "/">>, severity |-> INFORMATIONAL],
    [pattern |-> <<"guides", "/">>, severity |-> INFORMATIONAL],
    [pattern |-> <<"overview", "/", "beta-models">>, severity |-> INFORMATIONAL],
    [pattern |-> <<"overview", "/", "privacy">>, severity |-> INFORMATIONAL] >>

DocumentedHits(path) ==
    {i \in 1..Len(DocumentedRuleOrder) : Contains(path, DocumentedRuleOrder[i].pattern)}

\* C16 (as claimed): an added or removed page whose path holds the substrings
\* of several rules gets the severity of the rule that is first in the
\* documented order; a path with overview/deprecations and
\* api-reference/endpoint/ is breaking.
C16_FirstRuleInDocumentedOrder ==
    pc = "diffed" =>
        LET all == get_all_changes(diff_report[1])
        IN  \A i \in 1..Len(all) :
              (all[i].change_type # MODIFIED /\ DocumentedHits(all[i].path) # {}) =>
                 all[i].severity =
                    DocumentedRuleOrder[CHOOSE k \in DocumentedHits(all[i].path) :
                        \A j \in DocumentedHits(all[i].path) : k <= j].severity

(***************************************************************************)
(* Properties of the snapshot hash                                         *)
(***************************************************************************)

\* whitespace runs collapsed, case folded, the structured header left out
NormalizedMarkdown(file) == Lower(Join(Split(file.body)))

\* C12 (as claimed): the hash a snapshot records for a page is the SHA-256 of
\* the page's normalized markdown body, so two pages whose markdown differs
\* only in whitespace runs, letter case or header fields record the same hash.
C12_HashIsOfNormalizedBody ==
    pc = "snapshot_taken" =>
        \A p, q \in DOMAIN new_snapshot.page_manifest :
            NormalizedMarkdown(kb_dir[p]) = NormalizedMarkdown(kb_dir[q])
                => new_snapshot.page_manifest[p].hash
                      = new_snapshot.page_manifest[q].hash

(***************************************************************************)
(* Properties of the DocumentProcessor                                     *)
(***************************************************************************)

InputHashes == {documents[i].content_hash : i \in 1..Len(documents)}

\* C11: merge_documents returns exactly one document per distinct
\* content_hash of its input; the document kept for a hash is one of the
\* input and no input document with that hash has a higher-priority source
\* (github_mdx over openapi_spec over live_site), in whatever order the
\* documents were supplied.
C11_OnePerHashByPriority ==
    pc \in {"merged", "detected", "saved"} =>
        /\ Len(merged_docs) = Cardinality(InputHashes)
        /\ \A h \in InputHashes :
              Cardinality({k \in 1..Len(merged_docs) : merged_docs[k].content_hash = h}) = 1
        /\ \A k \in 1..Len(merged_docs) :
              /\ \E i \in 1..Len(documents) : documents[i] = merged_docs[k]
              /\ \A i \in 1..Len(documents) :
                    documents[i].content_hash = merged_docs[k].content_hash =>
                        \/ merged_docs[k].source = GITHUB_MDX
                        \/ /\ merged_docs[k].source = OPENAPI_SPEC
                           /\ documents[i].source # GITHUB_MDX
                        \/ /\ merged_docs[k].source = LIVE_SITE
                           /\ documents[i].source = LIVE_SITE

\* the live-site copy comes first, the repository copy of the same hash
\* last, next to a document of another hash: the repository copy is kept
C11_Witness ==
    /\ pc = "merged"
    /\ Len(documents) = 3
    /\ documents[1].source = LIVE_SITE /\ documents[1].content_hash = "hash1"
    /\ documents[2].content_hash = "hash2"
    /\ documents[3].source = GITHUB_MDX /\ documents[3].content_hash = "hash1"
    /\ Len(merged_docs) = 2
    /\ merged_docs[1] = documents[3]

IsInitialBuild(entry) == entry.title = <<"Initial build">>

\* C19: detect_changes with no previous state returns exactly one entry,
\* titled `Initial build` with severity info, however many documents there
\* are; with a previous state it returns no `Initial build` entry.
C19_InitialBuildEntry ==
    pc = "detected" =>
        /\ previous_state = None =>
              /\ Len(changelog_entries) = 1
              /\ IsInitialBuild(changelog_entries[1])
              /\ changelog_entries[1].severity = "info"
        /\ previous_state # None =>
              \A i \in 1..Len(changelog_entries) : ~IsInitialBuild(changelog_entries[i])

\* a first build (no state.json) with two merged documents
C19_Witness ==
    /\ pc = "detected"
    /\ previous_state = None
    /\ Len(merged_docs) = 2
    /\ Len(changelog_entries) = 1

(***************************************************************************)
(* Properties of the Merger                                                *)
(***************************************************************************)

CanonicalPaths == {canonical_pages[i].path : i \in 1..Len(canonical_pages)}

HasRepoMarkdown(page_info) ==
    page_info.path \in DOMAIN mdx_pages /\ mdx_pages[page_info.path] # <<>>

HasMatchingEndpoint(page_info) ==
    /\ IsEndpointPage(page_info.path)
    /\ \E k \in 1..Len(openapi_endpoints) :
          EndpointMatches(page_info.path, openapi_endpoints[k])

HasRenderedFragment(page_info) == page_info.url \in DOMAIN scraped_content

\* C17 (as claimed): merge_all returns exactly one entry per canonical page
\* path, and the entry of a page is the `not yet available` stub only if the
\* page has no repo markdown, no matching endpoint and no matching rendered
\* fragment.
C17_StubOnlyWithoutSources ==
    pc = "merged" =>
        /\ DOMAIN merged_pages = CanonicalPaths
        /\ \A i \in 1..Len(canonical_pages) :
              merged_pages[canonical_pages[i].path] = StubPage(canonical_pages[i].title)
                  => /\ ~HasRepoMarkdown(canonical_pages[i])
                     /\ ~HasMatchingEndpoint(canonical_pages[i])
                     /\ ~HasRenderedFragment(canonical_pages[i])

HasSentinel(markdown) == \E i \in 1..Len(markdown) : IsSentinel(markdown[i])

\* the converted markdown of the page, before the merger's substitutions
ConvertedMarkdown(page_info) ==
    IF HasRepoMarkdown(page_info) THEN MDXConvert(mdx_pages[page_info.path]) ELSE <<>>

\* C18 (as claimed): the output of a page whose converted markdown held
\* placeholder sentinels holds none: each is replaced by the converted
\* rendered content when there is rendered content for the page's URL, and by
\* the fallback text `[Dynamic content - see <url>]` when there is none.
C18_NoSentinelLeft ==
    pc = "merged" =>
        \A i \in 1..Len(canonical_pages) :
            LET page_info == canonical_pages[i]
                out == merged_pages[page_info.path]
            IN  (HasSentinel(ConvertedMarkdown(page_info))
                   /\ out # ErrorPage("TypeError")) =>
                    /\ ~HasSentinel(out)
                    /\ HasRenderedFragment(page_info) =>
                          Contains(out, HTMLConvert(scraped_content[page_info.url]))
                    /\ ~HasRenderedFragment(page_info) =>
                          Contains(out, FallbackText(page_info.url))

(***************************************************************************)
(* Properties of OpenAPIParser._expand_schema                              *)
(***************************************************************************)

\* C20: _expand_schema returns on every document, cyclic ones included; no
\* call runs with depth greater than 11, and a call at depth 11 returns the
\* schema as it is, its reference unresolved.
C20_ExpandDepthBounded ==
    pc = "expanded" =>
        /\ expanded_schema # None
        /\ \A c \in expanded_schema[1].calls :
              /\ c.depth <= 11
              /\ c.depth = 11 => c.as_is

\* a schema that is a reference to itself: the expansion stops at depth 11
\* and hands back the reference
C20_Witness ==
    /\ pc = "expanded"
    /\ openapi_spec[1] = [kind |-> "dict", ref |-> 1, kids |-> <<>>]
    /\ [node |-> 1, depth |-> 11, as_is |-> TRUE] \in expanded_schema[1].calls
    /\ expanded_schema[1].value = AsIs(1)

(***************************************************************************)
(* Claims about the changelog                                              *)
(***************************************************************************)

StoredSnapshot(n) == load_snapshot(snapshot_dir[n])

\* the report the command wrote for the i-th consecutive pair of snapshots
PairReport(i) == load_report(changelog_json.reports[i])

\* C28: for each pair of consecutive snapshots the changelog command diffs
\* the older one as old against the newer one as new: a page only in the
\* newer snapshot is reported as added, a page only in the older one as
\* removed.
C28_OlderIsOldNewerIsNew ==
    (pc = "done" /\ changelog_json.exists) =>
        LET snapshots == list_snapshots(snapshot_dir)
        IN  \A i \in 1..(Len(snapshots) - 1) :
               LET older == StoredSnapshot(snapshots[i])
                   newer == StoredSnapshot(snapshots[i + 1])
               IN  /\ \A p \in get_page_paths(newer) \ get_page_paths(older) :
                         TypesFor(PairReport(i), p) = {ADDED}
                   /\ \A p \in get_page_paths(older) \ get_page_paths(newer) :
                         TypesFor(PairReport(i), p) = {REMOVED}

(***************************************************************************)
(* Claims about the similarity pass                                        *)
(***************************************************************************)

\* the pages the similarity pass removed from the result of the exact pass
RemovedBySimilarity ==
    {exact_pages[i] : i \in 1..Len(exact_pages)} \ Range(unique_pages)

\* C29 (as claimed): every page removed by the similarity pass of
\* deduplicate_similar has Jaccard similarity >= threshold with some page of
\* the returned set: no page is dropped solely because of a near-duplicate
\* that is itself dropped later in the same pass.
C29_RemovedIsSimilarToSurvivor ==
    pc = "similar" =>
        \A removed \in RemovedBySimilarity :
            \E k \in 1..Len(unique_pages) :
                JaccardAtLeast(Words(removed.content),
                               Words(unique_pages[k].content), threshold)

\* p may be dropped for q: they are similar and p is not the longer one
DroppedFor(p, q) ==
    /\ p # q
    /\ JaccardAtLeast(Words(p.content), Words(q.content), threshold)
    /\ TextLen(p.content) <= TextLen(q.content)

RECURSIVE Covered(_)
\* the pages linked to a page of S by a chain of DroppedFor steps
Covered(S) ==
    LET more == {p \in Range(exact_pages) \ S : \E q \in S : DroppedFor(p, q)}
    IN  IF more = {} THEN S ELSE Covered(S \cup more)

\* C29 (amended): every page removed by the similarity pass is linked to a
\* page of the returned set by a chain of pages in which each page is similar
\* (Jaccard >= threshold) to the next and not longer than it; the chain may
\* pass through pages that were removed later in the same pass.
C29_RemovedIsChainedToSurvivor ==
    pc = "similar" => RemovedBySimilarity \subseteq Covered(Range(unique_pages))

\* a page was removed although no page of the returned set is similar to it
C29_Witness ==
    /\ pc = "similar"
    /\ \E removed \in RemovedBySimilarity :
          \A k \in 1..Len(unique_pages) :
              ~JaccardAtLeast(Words(removed.content),
                              Words(unique_pages[k].content), threshold)

(***************************************************************************)
(* Claims about GitHubFetcher.fetch_file                                   *)
(***************************************************************************)

LastResponse == fetch.responses[Len(fetch.responses)]

Final(outcome) == outcome \in {"200", "404"}

\* C21: one call of fetch_file issues at most 3 requests; it issues no
\* further request after a 200 or a 404 response; a 404 returns the empty
\* result after that single request; and when all attempts fail the call
\* returns the empty result instead of raising.
C21_AtMostThreeAndFinalResponses ==
    /\ fetch.sent <= 3
    /\ \A i \in 1..Len(fetch.responses) : Final(fetch.responses[i]) => fetch.sent = i
    /\ (fetch.responses # <<>> /\ LastResponse = "404")
          => fetch.pc = "returned" /\ fetch.result = Some(<<>>)
    /\ (fetch.sent = 3 /\ Len(fetch.responses) = 3
        /\ ~Final(LastResponse) /\ fetch.pc \notin {"sleep", "cancelled"})
          => fetch.pc = "returned" /\ fetch.result = Some(<<>>)

\* C22: a 401 response is permanent, like a 404: fetch_file makes no further
\* request after it and returns the empty result.
C22_NoRetryAfter401 ==
    /\ \A i \in 1..Len(fetch.responses) : fetch.responses[i] = "401" => fetch.sent = i
    /\ (fetch.responses # <<>> /\ LastResponse = "401")
          => fetch.pc = "returned" /\ fetch.result = Some(<<>>)

\* the running call returned the cache entry without a request
CacheHit == fetch.pc = "returned" /\ fetch.use_cache /\ fetch.sent = 0

\* C26: after a build was cancelled while fetch_file was writing the cache
\* entry, a later fetch_file call with use_cache = True that is served from
\* the cache returns the complete body of a successful upstream response,
\* never a partially written payload.
C26_NoPartialCacheHit ==
    (fetch.write_cancelled /\ ~fetch.write_failed /\ CacheHit)
        => \E content \in UpstreamBodies : fetch.result = Some(content)

\* C23: while fetch_all_pages runs, over any number of page paths, at most
\* 16 repo-file requests are in flight at any moment.
C23_AtMostSixteenInFlight == InFlight(gather) <= 16

(***************************************************************************)
(* Claims about WebScraper                                                 *)
(***************************************************************************)

Navigating == {u \in DOMAIN scraper.task : scraper.task[u].pc = "goto"}

\* C24: during scrape_all the rendered pages are fetched one at a time: at
\* no moment is more than one page navigation in progress on the browser.
C24_OneNavigationAtATime == Cardinality(Navigating) <= 1

\* C25: when scrape_all finishes, by return or by exception, every browser
\* and driver started during the run has been closed.
C25_AllClosedAtTheEnd ==
    scraper.pc \in {"returned", "raised"} =>
        /\ \A d \in 1..Len(scraper.drivers) : scraper.drivers[d] = "stopped"
        /\ \A b \in 1..Len(scraper.browsers) : scraper.browsers[b].state = "closed"

\* C30: the fallback string of a failed scrape_page is not stored as a cache
\* entry: a later scrape_page for the URL with use_cache = True and a working
\* browser, when it is served from the cache, returns a rendered page, not
\* the fallback.
C30_FallbackIsNotCached ==
    \A u \in DOMAIN scraper.task :
        (scraper.task[u].pc = "cached"
         /\ scraper.playwright_available /\ scraper.browser # 0)
            => scraper.results[u] = Some(RenderedPage(PAGES_TO_SCRAPE[u]))

====
